---- MODULE Spec2Model ----
(***************************************************************************)
(* State-machine model of the search-engine contracts:                     *)
(*   - the SearchCatalog contract (crates/contract-catalog/src/lib.rs)      *)
(*   - the FullTextShard contract (crates/contract-fulltext-shard)          *)
(*   - the Bloom-filter summary used by both (search-common/src/bloom.rs)   *)
(*                                                                         *)
(* Representation.                                                         *)
(*   Strings and byte vectors (contract_key, title, description, snippet,   *)
(*   mini_snippet, nonce, word) are represented by their byte length n,     *)
(*   standing for the string of n bytes "a"; the empty string is 0, and     *)
(*   the lexicographic order of these strings is the order of the lengths.  *)
(*   A 32-byte pubkey is a natural number, the all-zero key being 0.        *)
(*   Option<u64> is a sequence of length 0 (None) or 1 (Some(v)).           *)
(*   A BTreeMap is a function on the finite set of its keys; iteration      *)
(*   order is the order of the keys.                                        *)
(*   SHA-256 is represented by a collision-free numbering of its inputs.    *)
(***************************************************************************)
EXTENDS Integers, Sequences, FiniteSets, TLC

VARIABLES
    threshold,  \* CatalogParameters.confirmation_weight_threshold
    cat,        \* the CatalogState a host holds for the catalog contract
    call,       \* the last update_state call made on cat: input state, data, result
    hist,       \* the deltas applied to cat since Init, one per successful call
    vdelta,     \* a CatalogDelta handed to validate_delta
    verdict,    \* what validate_delta returned for vdelta
    node,       \* anti-entropy: the CatalogState of each of two replicas
    built,      \* anti-entropy: number of deltas each replica was built from
    pc,         \* anti-entropy: position in the exchange round
    summaries,    \* anti-entropy: the summaries taken in this round
    payloads,    \* anti-entropy: the get_state_delta payload destined for each replica
    base,       \* anti-entropy: the replica states when the summaries were taken
    rounds,     \* anti-entropy: completed exchange rounds (capped)
    shard,      \* shard anti-entropy: the ShardState of each of two replicas
    sbuilt,     \* shard anti-entropy: number of deltas each replica was built from
    spc,        \* shard anti-entropy: position in the exchange round
    ssummary,   \* shard anti-entropy: the summaries taken in this round
    spayload,   \* shard anti-entropy: the payload destined for each replica
    sbase,      \* shard anti-entropy: the replica states when the summaries were taken
    scall,      \* the last update_state call made on a shard: input state, data, result
    bf,         \* a BloomFilter under test
    inserted,   \* the items inserted into bf so far
    bround,     \* the last to_bytes / from_bytes round trip of bf
    params,     \* publication contract: the Parameters of the contract instance
    stored,     \* publication contract: the state the host holds
    pcall,      \* publication contract: the last call made, its inputs and result
    scored      \* scoring: the inputs of a scoring function and what it returned

vars == <<threshold, cat, call, hist, vdelta, verdict, node, built, pc, summaries,
          payloads, base, rounds, shard, sbuilt, spc, ssummary, spayload, sbase,
          scall, bf, inserted, bround, params, stored, pcall, scored>>

-----------------------------------------------------------------------------
(* Generic helpers *)

Max(a, b) == IF a >= b THEN a ELSE b
Min(a, b) == IF a <= b THEN a ELSE b

\* Option<u64>
None == <<>>
Some(v) == <<v>>

\* BTreeMap::entry(k).or_insert / insert
MapPut(m, k, v) == [x \in (DOMAIN m) \cup {k} |-> IF x = k THEN v ELSE m[x]]

\* The largest element of a non-empty set of integers
SetMax(S) == CHOOSE x \in S : \A y \in S : y <= x

\* Sum of f over a finite set of keys
RECURSIVE SumOver(_, _)
SumOver(f, S) ==
    IF S = {} THEN 0
    ELSE LET x == CHOOSE y \in S : TRUE IN f[x] + SumOver(f, S \ {x})

\* Sum of the elements of a sequence of numbers
RECURSIVE SumSeq(_)
SumSeq(s) == IF s = <<>> THEN 0 ELSE Head(s) + SumSeq(Tail(s))

\* The keys of a BTreeMap in iteration (ascending) order
RECURSIVE KeysInOrder(_)
KeysInOrder(S) ==
    IF S = {} THEN <<>>
    ELSE LET lo == CHOOSE x \in S : \A y \in S : x <= y
         IN <<lo>> \o KeysInOrder(S \ {lo})

-----------------------------------------------------------------------------
(* search-common: hashing.rs *)

\* metadata_hash: sha256 over the three length-prefixed fields.  The digest is
\* represented by a collision-free number of (title, description, snippet);
\* 0 is kept for the all-zero hash [0u8; 32].
metadata_hash(title, description, snippet) ==
    1 + title + 2048 * (description + 2048 * snippet)

-----------------------------------------------------------------------------
(* search-common: bloom.rs.  A BloomFilter is
     [bits |-> the set of positions of the 1 bits of the byte vector,
      num_bytes |-> bits.len(), num_bits |-> num_bits]                      *)

K == 7
SummaryBits == 8192   \* BloomFilter::new(8192) in summarize_state

\* The first 8 bytes of sha256(bytes) as a number: a mixing function of the
\* byte string, given as the sequence of its parts
RECURSIVE Digest(_, _)
Digest(acc, parts) ==
    IF parts = <<>> THEN acc
    ELSE Digest((acc * 131 + (Head(parts) % 1000003) + 7) % 1000003, Tail(parts))

\* BloomFilter::new(num_bits)
BloomNew(num_bits) ==
    [bits |-> {}, num_bytes |-> (num_bits + 7) \div 8, num_bits |-> num_bits]

\* val % self.num_bits in hash_position: a remainder by zero, which panics in
\* every build.  insert and contains call hash_position before anything else.
HashPanics(filter) == filter.num_bits = 0

\* hash_position(item, prefix): sha256([prefix] || item) mod num_bits
hash_position(filter, item, prefix) == Digest(0, <<prefix>> \o item) % filter.num_bits

\* Mutant of BloomInsert: the last of the K positions is not set
BloomInsert_short(filter, item) ==
    [filter EXCEPT !.bits = @ \cup
        {hash_position(filter, item, i) : i \in
            {i \in 0..(K - 2) : hash_position(filter, item, i) \div 8 < filter.num_bytes}}]

\* insert(item)
BloomInsert(filter, item) ==
    [filter EXCEPT !.bits = @ \cup
        {hash_position(filter, item, i) : i \in
            {i \in 0..(K - 1) : hash_position(filter, item, i) \div 8 < filter.num_bytes}}]

\* contains(item)
BloomContains(filter, item) ==
    \A i \in 0..(K - 1) :
        LET pos == hash_position(filter, item, i)
        IN pos \div 8 < filter.num_bytes /\ pos \in filter.bits

\* The value of byte byte_idx of the bits vector
ByteAt(filter, byte_idx) ==
    SumSeq([b \in 1..8 |-> IF 8 * byte_idx + (b - 1) \in filter.bits
                           THEN 2 ^ (b - 1) ELSE 0])

\* The CBOR encoding of a BloomFilter, as serde derives it: the map of "bits",
\* an array of num_bytes numbers, and "num_bits".  The array is given by its
\* length and its non-zero elements.
BloomBytes(len, bytes, num_bits) ==
    [cbor |-> "BloomFilter", len |-> len, bytes |-> bytes, num_bits |-> num_bits]

\* to_bytes
to_bytes(filter) ==
    BloomBytes(filter.num_bytes,
               [byte_idx \in {pos \div 8 : pos \in filter.bits} |-> ByteAt(filter, byte_idx)],
               filter.num_bits)

\* Mutant of from_bytes: the highest bit of every byte is lost
from_bytes_low(bytes) ==
    IF bytes.cbor = "BloomFilter"
    THEN Some([bits |-> {8 * at[1] + at[2] : at \in
                            {at \in (DOMAIN bytes.bytes) \X (0..6) :
                                (bytes.bytes[at[1]] \div (2 ^ at[2])) % 2 = 1}},
               num_bytes |-> bytes.len,
               num_bits |-> bytes.num_bits])
    ELSE None

\* from_bytes: Some(filter), or None for bytes that are no encoding of a
\* filter.  Nothing relates the decoded num_bits to the length of bits.
from_bytes(bytes) ==
    IF bytes.cbor = "BloomFilter"
    THEN Some([bits |-> {8 * at[1] + at[2] : at \in
                            {at \in (DOMAIN bytes.bytes) \X (0..7) :
                                (bytes.bytes[at[1]] \div (2 ^ at[2])) % 2 = 1}},
               num_bytes |-> bytes.len,
               num_bits |-> bytes.num_bits])
    ELSE None

RECURSIVE InsertAll(_, _)
InsertAll(filter, items) ==
    IF items = <<>> THEN filter
    ELSE InsertAll(BloomInsert(filter, Head(items)), Tail(items))

-----------------------------------------------------------------------------
(* contract-catalog: types and private helpers *)

U64_MAX == 2147483647  \* u64::MAX, above every timestamp of the model
MaxTitleLen == 256
MaxDescriptionLen == 1024

Attestation(pk, nonce, difficulty, created, weight) ==
    [contributor_pubkey |-> pk,
     antiflood_token |-> [nonce |-> nonce, difficulty |-> difficulty],
     token_created_at |-> created,
     weight |-> weight]

CatalogDelta(key, title, description, mini, snippet, size, version, hash, att) ==
    [contract_key |-> key, title |-> title, description |-> description,
     mini_snippet |-> mini, snippet |-> snippet, size_bytes |-> size,
     version |-> version, metadata_hash |-> hash, attestation |-> att]

\* CatalogState::default()
EmptyCatalog == [entries |-> <<>>, contributors |-> <<>>]

NewEntry(key) ==
    [contract_key |-> key, hash_variants |-> <<>>, size_bytes |-> 0,
     version |-> None, status |-> "Pending", first_seen |-> U64_MAX, last_seen |-> 0]

NewVariant ==
    [title |-> 0, description |-> 0, mini_snippet |-> 0,
     attestations |-> <<>>, total_weight |-> 0]

\* (Some(a), Some(b)) => Some(max); (Some(v), None) | (None, Some(v)) => Some(v)
MaxVersion(ev, dv) ==
    IF ev # None /\ dv # None THEN Some(Max(ev[1], dv[1]))
    ELSE IF ev # None THEN ev ELSE dv

\* Mutant of HasPubkey: the dedup check never finds the pubkey
HasPubkey_never(atts, pk) == FALSE

\* attestations.iter().any(|a| a.contributor_pubkey == pk)
HasPubkey(atts, pk) == \E i \in 1..Len(atts) : atts[i].contributor_pubkey = pk

\* A u32 as its two 16-bit halves
U32Halves(v) == <<v \div 65536, v % 65536>>

\* The halves of the u32 sum of the attestation weights before reduction: the
\* high halves with the carry of the low ones, and the low halves
WeightSumHalves(atts) ==
    LET low == SumSeq([i \in 1..Len(atts) |-> atts[i].weight % 65536])
        high == SumSeq([i \in 1..Len(atts) |-> atts[i].weight \div 65536])
    IN <<high + (low \div 65536), low % 65536>>

\* attestations.iter().map(|a| a.weight).sum::<u32>() leaves the range of u32
WeightSumOverflows(atts) == WeightSumHalves(atts)[1] >= 65536

\* The sum as wrapping u32 arithmetic leaves it, in halves
WrappedWeightSum(atts) ==
    <<WeightSumHalves(atts)[1] % 65536, WeightSumHalves(atts)[2]>>

\* attestations.iter().map(|a| a.weight).sum(): the u32 sum as a build without
\* overflow checks leaves it, reduced modulo 2^32
SumWeights(atts) ==
    LET wrapped == WrappedWeightSum(atts)
    IN wrapped[1] * 65536 + wrapped[2]

\* Stable insertion of one attestation into a sequence sorted by pubkey
RECURSIVE InsertByPubkey(_, _)
InsertByPubkey(sorted, a) ==
    IF sorted = <<>> THEN <<a>>
    ELSE IF Head(sorted).contributor_pubkey <= a.contributor_pubkey
         THEN <<Head(sorted)>> \o InsertByPubkey(Tail(sorted), a)
         ELSE <<a>> \o sorted

\* Mutant of SortByPubkey: the attestations stay in the order they were pushed
SortByPubkey_pushed(atts) == atts

\* attestations.sort_by(|a, b| a.contributor_pubkey.cmp(&b.contributor_pubkey)):
\* a stable sort
RECURSIVE SortByPubkey(_)
SortByPubkey(atts) ==
    IF atts = <<>> THEN <<>>
    ELSE InsertByPubkey(SortByPubkey(SubSeq(atts, 1, Len(atts) - 1)), atts[Len(atts)])

\* Iterator::max_by_key over a BTreeMap: the LAST key (in key order) whose
\* measure is maximal.  measures maps each key of the non-empty map to its
\* measure.
MaxByKey(measures) ==
    LET best == SetMax({measures[h] : h \in DOMAIN measures})
    IN SetMax({h \in DOMAIN measures : measures[h] = best})

\* |(_, v)| v.attestations.len() and |(_, v)| v.total_weight
AttCount(m) == [h \in DOMAIN m |-> Len(m[h].attestations)]
TotalWeight(m) == [h \in DOMAIN m |-> m[h].total_weight]

\* bloom_key(entry): contract_key || best_hash || best_weight (big-endian u32).
\* The three parts have fixed or leading position, so the byte string is
\* represented by the triple.
bloom_key(entry) ==
    LET hv == entry.hash_variants
        best_hash == IF DOMAIN hv = {} THEN 0 ELSE MaxByKey(TotalWeight(hv))
        best_weight == IF DOMAIN hv = {} THEN 0 ELSE hv[best_hash].total_weight
    IN <<entry.contract_key, best_hash, best_weight>>

\* Mutant of derive_status: total_weight is read in place of the number of
\* attestations
derive_status_weighted(entry, thr) ==
    LET hv == entry.hash_variants
        hs == DOMAIN hv
        top == IF hs = {} THEN 0 ELSE MaxByKey(TotalWeight(hv))
        best == IF hs = {} THEN 0 ELSE hv[top].total_weight
        rest == hs \ {top}
        second == IF rest = {} THEN 0
                  ELSE SetMax({hv[h].total_weight : h \in rest})
    IN IF best >= thr
       THEN IF second > 0 /\ second * 100 > best * 30 THEN "Disputed" ELSE "Confirmed"
       ELSE "Pending"

\* Mutant of derive_status: the factors of the dispute ratio are exchanged
derive_status_swapped(entry, thr) ==
    LET hv == entry.hash_variants
        hs == DOMAIN hv
        top == IF hs = {} THEN 0 ELSE MaxByKey(AttCount(hv))
        best == IF hs = {} THEN 0 ELSE Len(hv[top].attestations)
        rest == hs \ {top}
        second == IF rest = {} THEN 0
                  ELSE SetMax({Len(hv[h].attestations) : h \in rest})
    IN IF best >= thr
       THEN IF second > 0 /\ second * 30 > best * 100 THEN "Disputed" ELSE "Confirmed"
       ELSE "Pending"

\* derive_status(entry, threshold): from attestation counts
derive_status(entry, thr) ==
    LET hv == entry.hash_variants
        hs == DOMAIN hv
        top == IF hs = {} THEN 0 ELSE MaxByKey(AttCount(hv))
        best == IF hs = {} THEN 0 ELSE Len(hv[top].attestations)
        rest == hs \ {top}
        second == IF rest = {} THEN 0
                  ELSE SetMax({Len(hv[h].attestations) : h \in rest})
    IN IF best >= thr
       THEN IF second > 0 /\ second * 100 > best * 30 THEN "Disputed" ELSE "Confirmed"
       ELSE "Pending"

\* Mutant of validate_delta: the length bounds are exclusive
validate_delta_exclusive(delta) ==
    IF delta.contract_key = 0 THEN "InvalidUpdate"
    ELSE IF delta.title >= MaxTitleLen THEN "InvalidUpdate"
    ELSE IF delta.description >= MaxDescriptionLen THEN "InvalidUpdate"
    ELSE IF delta.attestation.antiflood_token.nonce = 0
            \/ delta.attestation.antiflood_token.difficulty = 0 THEN "InvalidUpdate"
    ELSE IF delta.attestation.contributor_pubkey = 0 THEN "InvalidUpdate"
    ELSE IF delta.attestation.token_created_at = 0 THEN "InvalidUpdate"
    ELSE IF delta.metadata_hash
            # metadata_hash(delta.title, delta.description, delta.snippet)
         THEN "InvalidUpdate"
    ELSE "Ok"

\* Mutant of HashedSnippet: the hash is taken over the delta's mini_snippet
HashedSnippet_mini(delta) == delta.mini_snippet

\* The third field validate_delta hands to metadata_hash: &delta.snippet
HashedSnippet(delta) == delta.snippet

\* validate_delta(delta): Ok(()) or Err(ContractError::InvalidUpdate)
validate_delta(delta) ==
    IF delta.contract_key = 0 THEN "InvalidUpdate"
    ELSE IF delta.title > MaxTitleLen THEN "InvalidUpdate"
    ELSE IF delta.description > MaxDescriptionLen THEN "InvalidUpdate"
    ELSE IF delta.attestation.antiflood_token.nonce = 0
            \/ delta.attestation.antiflood_token.difficulty = 0 THEN "InvalidUpdate"
    ELSE IF delta.attestation.contributor_pubkey = 0 THEN "InvalidUpdate"
    ELSE IF delta.attestation.token_created_at = 0 THEN "InvalidUpdate"
    ELSE IF delta.metadata_hash
            # metadata_hash(delta.title, delta.description, HashedSnippet(delta))
         THEN "InvalidUpdate"
    ELSE "Ok"

\* state.contributors.get(&pk).map(|c| c.trust_score).unwrap_or(0)
TrustOf(contributors, pk) ==
    IF pk \in DOMAIN contributors THEN contributors[pk].trust_score ELSE 0

\* Mutant of StoredSnippet: the variant keeps the delta's mini_snippet
StoredSnippet_mini(delta) == delta.mini_snippet

\* variant.mini_snippet = delta.snippet.clone()
StoredSnippet(delta) == delta.snippet

\* Mutant of apply_delta_to_state: the entry is written into an empty entry map
apply_delta_to_state_alone(state, delta) ==
    LET pk == delta.attestation.contributor_pubkey
        key == delta.contract_key
        entry == IF key \in DOMAIN state.entries THEN state.entries[key]
                 ELSE NewEntry(key)
        hash == delta.metadata_hash
        variant == IF hash \in DOMAIN entry.hash_variants THEN entry.hash_variants[hash]
                   ELSE NewVariant
        atts == IF HasPubkey(variant.attestations, pk) THEN variant.attestations
                ELSE SortByPubkey(Append(variant.attestations,
                         [delta.attestation EXCEPT
                             !.weight = 1 + TrustOf(state.contributors, pk)]))
        variant2 == [title |-> delta.title,
                     description |-> delta.description,
                     mini_snippet |-> StoredSnippet(delta),
                     attestations |-> atts,
                     total_weight |-> SumWeights(atts)]
        entry2 == [entry EXCEPT
                     !.hash_variants = MapPut(@, hash, variant2),
                     !.size_bytes = Max(@, delta.size_bytes),
                     !.version = MaxVersion(@, delta.version),
                     !.first_seen = Min(@, delta.attestation.token_created_at),
                     !.last_seen = Max(@, delta.attestation.token_created_at)]
    IN [state EXCEPT !.entries = MapPut(<<>>, key, entry2)]

\* apply_delta_to_state(state, delta)
apply_delta_to_state(state, delta) ==
    LET pk == delta.attestation.contributor_pubkey
        weight == 1 + TrustOf(state.contributors, pk)
        key == delta.contract_key
        entry == IF key \in DOMAIN state.entries THEN state.entries[key]
                 ELSE NewEntry(key)
        hash == delta.metadata_hash
        variant == IF hash \in DOMAIN entry.hash_variants THEN entry.hash_variants[hash]
                   ELSE NewVariant
        atts == IF HasPubkey(variant.attestations, pk) THEN variant.attestations
                ELSE SortByPubkey(Append(variant.attestations,
                                         [delta.attestation EXCEPT !.weight = weight]))
        variant2 == [title |-> delta.title,
                     description |-> delta.description,
                     mini_snippet |-> StoredSnippet(delta),
                     attestations |-> atts,
                     total_weight |-> SumWeights(atts)]
        entry2 == [entry EXCEPT
                     !.hash_variants = MapPut(@, hash, variant2),
                     !.size_bytes = Max(@, delta.size_bytes),
                     !.version = MaxVersion(@, delta.version),
                     !.first_seen = Min(@, delta.attestation.token_created_at),
                     !.last_seen = Max(@, delta.attestation.token_created_at)]
    IN [state EXCEPT !.entries = MapPut(@, key, entry2)]

\* Mutant of MergeAttestations: the attestations of b replace those of a
MergeAttestations_theirs(a_atts, b_atts) == b_atts

\* Mutant of MergeAttestations: every attestation of b is pushed
RECURSIVE MergeAttestations_all(_, _)
MergeAttestations_all(a_atts, b_atts) ==
    IF b_atts = <<>> THEN a_atts
    ELSE MergeAttestations_all(Append(a_atts, Head(b_atts)), Tail(b_atts))

\* for b_att in &b_variant.attestations: an attestation whose pubkey the
\* variant does not list yet is pushed, the others are dropped
RECURSIVE MergeAttestations(_, _)
MergeAttestations(a_atts, b_atts) ==
    IF b_atts = <<>> THEN a_atts
    ELSE MergeAttestations(
             IF HasPubkey(a_atts, Head(b_atts).contributor_pubkey) THEN a_atts
             ELSE Append(a_atts, Head(b_atts)),
             Tail(b_atts))

\* The body of `for (hash, b_variant) in &b_entry.hash_variants`: the variant of
\* a under hash (created with b's texts if a has none) after b's attestations
\* were merged in
MergeVariant(a_variants, hash, b_variant) ==
    LET a_variant == IF hash \in DOMAIN a_variants THEN a_variants[hash]
                     ELSE [title |-> b_variant.title,
                           description |-> b_variant.description,
                           mini_snippet |-> b_variant.mini_snippet,
                           attestations |-> <<>>,
                           total_weight |-> 0]
        atts == SortByPubkey(MergeAttestations(a_variant.attestations,
                                               b_variant.attestations))
    IN [a_variant EXCEPT !.attestations = atts, !.total_weight = SumWeights(atts)]

\* Mutant of MergeEntry: the size and the last_seen of b replace those of a
MergeEntry_overwrite(a_entry, b_entry) ==
    [a_entry EXCEPT
        !.hash_variants =
            [hash \in (DOMAIN a_entry.hash_variants) \cup (DOMAIN b_entry.hash_variants) |->
                IF hash \in DOMAIN b_entry.hash_variants
                THEN MergeVariant(a_entry.hash_variants, hash, b_entry.hash_variants[hash])
                ELSE a_entry.hash_variants[hash]],
        !.size_bytes = b_entry.size_bytes,
        !.version = MaxVersion(@, b_entry.version),
        !.first_seen = Min(@, b_entry.first_seen),
        !.last_seen = b_entry.last_seen]

\* The body of `for (key, b_entry) in &b.entries`
MergeEntry(a_entry, b_entry) ==
    [a_entry EXCEPT
        !.hash_variants =
            [hash \in (DOMAIN a_entry.hash_variants) \cup (DOMAIN b_entry.hash_variants) |->
                IF hash \in DOMAIN b_entry.hash_variants
                THEN MergeVariant(a_entry.hash_variants, hash, b_entry.hash_variants[hash])
                ELSE a_entry.hash_variants[hash]],
        !.size_bytes = Max(@, b_entry.size_bytes),
        !.version = MaxVersion(@, b_entry.version),
        !.first_seen = Min(@, b_entry.first_seen),
        !.last_seen = Max(@, b_entry.last_seen)]

\* The body of `for (pk, b_score) in &b.contributors`
MergeScore(a_contributors, pk, b_score) ==
    LET a_score == IF pk \in DOMAIN a_contributors THEN a_contributors[pk]
                   ELSE [pubkey |-> pk, trust_score |-> 0, total_contributions |-> 0]
    IN [a_score EXCEPT
           !.trust_score = Max(@, b_score.trust_score),
           !.total_contributions = Max(@, b_score.total_contributions)]

\* merge_catalog_states(a, b): a after b was merged into it
merge_catalog_states(a, b) ==
    [entries |->
        [key \in (DOMAIN a.entries) \cup (DOMAIN b.entries) |->
            IF key \in DOMAIN b.entries
            THEN MergeEntry(IF key \in DOMAIN a.entries THEN a.entries[key]
                            ELSE NewEntry(key),
                            b.entries[key])
            ELSE a.entries[key]],
     contributors |->
        [pk \in (DOMAIN a.contributors) \cup (DOMAIN b.contributors) |->
            IF pk \in DOMAIN b.contributors
            THEN MergeScore(a.contributors, pk, b.contributors[pk])
            ELSE a.contributors[pk]]]

\* Number of attestations of a sequence that carry pubkey pk
CountPubkey(atts, pk) ==
    Cardinality({i \in 1..Len(atts) : atts[i].contributor_pubkey = pk})

\* What one entry adds to the trust of pk in compute_trust_from_entries
EntryTrust(entry, thr, pk) ==
    IF derive_status(entry, thr) \in {"Confirmed", "Disputed"}
       /\ DOMAIN entry.hash_variants # {}
    THEN CountPubkey(entry.hash_variants[MaxByKey(AttCount(entry.hash_variants))]
                        .attestations, pk)
    ELSE 0

\* The pubkeys of a sequence of attestations
PubkeysOf(atts) == {atts[i].contributor_pubkey : i \in 1..Len(atts)}

\* All pubkeys that attest anything in the state
Attestors(state) ==
    UNION {UNION {PubkeysOf(state.entries[k].hash_variants[h].attestations) :
                      h \in DOMAIN state.entries[k].hash_variants} :
               k \in DOMAIN state.entries}

\* compute_trust_from_entries(state, threshold): pubkey -> count, holding only
\* the pubkeys counted at least once
compute_trust_from_entries(state, thr) ==
    LET total(pk) == SumOver([k \in DOMAIN state.entries |->
                                 EntryTrust(state.entries[k], thr, pk)],
                             DOMAIN state.entries)
        counted == {pk \in Attestors(state) : total(pk) > 0}
    IN [pk \in counted |-> total(pk)]

\* Mutant of finalize_state: the computed trust replaces the recorded one
finalize_state_assign(state, thr) ==
    LET computed_trust == compute_trust_from_entries(state, thr)
        old == state.contributors
        \* Step 2: max-wins update of the contributor table
        contributors ==
            [pk \in (DOMAIN old) \cup (DOMAIN computed_trust) |->
                IF pk \in DOMAIN computed_trust
                THEN LET score == IF pk \in DOMAIN old THEN old[pk]
                                  ELSE [pubkey |-> pk, trust_score |-> 0,
                                        total_contributions |-> 0]
                     IN [pubkey |-> score.pubkey,
                         trust_score |-> computed_trust[pk],
                         total_contributions |-> computed_trust[pk]]
                ELSE old[pk]]
        \* Step 3: weights from the final contributor table
        reweigh(variant) ==
            LET atts == [i \in 1..Len(variant.attestations) |->
                            [variant.attestations[i] EXCEPT !.weight =
                                1 + TrustOf(contributors,
                                            variant.attestations[i].contributor_pubkey)]]
            IN [variant EXCEPT !.attestations = atts, !.total_weight = SumWeights(atts)]
        reweighed(entry) ==
            [entry EXCEPT !.hash_variants =
                [h \in DOMAIN entry.hash_variants |-> reweigh(entry.hash_variants[h])]]
        \* Step 4: status from attestation counts
        entries == [k \in DOMAIN state.entries |->
                       [reweighed(state.entries[k]) EXCEPT
                           !.status = derive_status(state.entries[k], thr)]]
    IN [entries |-> entries, contributors |-> contributors]

\* finalize_state(state, threshold)
finalize_state(state, thr) ==
    LET computed_trust == compute_trust_from_entries(state, thr)
        old == state.contributors
        \* Step 2: max-wins update of the contributor table
        contributors ==
            [pk \in (DOMAIN old) \cup (DOMAIN computed_trust) |->
                IF pk \in DOMAIN computed_trust
                THEN LET score == IF pk \in DOMAIN old THEN old[pk]
                                  ELSE [pubkey |-> pk, trust_score |-> 0,
                                        total_contributions |-> 0]
                     IN [pubkey |-> score.pubkey,
                         trust_score |-> Max(score.trust_score, computed_trust[pk]),
                         total_contributions |->
                             Max(score.total_contributions, computed_trust[pk])]
                ELSE old[pk]]
        \* Step 3: weights from the final contributor table
        reweigh(variant) ==
            LET atts == [i \in 1..Len(variant.attestations) |->
                            [variant.attestations[i] EXCEPT !.weight =
                                1 + TrustOf(contributors,
                                            variant.attestations[i].contributor_pubkey)]]
            IN [variant EXCEPT !.attestations = atts, !.total_weight = SumWeights(atts)]
        reweighed(entry) ==
            [entry EXCEPT !.hash_variants =
                [h \in DOMAIN entry.hash_variants |-> reweigh(entry.hash_variants[h])]]
        \* Step 4: status from attestation counts
        entries == [k \in DOMAIN state.entries |->
                       [reweighed(state.entries[k]) EXCEPT
                           !.status = derive_status(state.entries[k], thr)]]
    IN [entries |-> entries, contributors |-> contributors]

\* The checks of validate_state on one variant, in the order of the code:
\* "Ok", "InvalidState", or "Panic" where the sum overflows in a build with
\* overflow checks (without them the sum wraps)
ValidateVariant(overflow_checks, hash, variant) ==
    IF hash # metadata_hash(variant.title, variant.description, variant.mini_snippet)
    THEN "InvalidState"
    ELSE IF \E i, j \in 1..Len(variant.attestations) :
               /\ i # j
               /\ variant.attestations[i].contributor_pubkey
                     = variant.attestations[j].contributor_pubkey
    THEN "InvalidState"
    ELSE IF overflow_checks /\ WeightSumOverflows(variant.attestations)
    THEN "Panic"
    ELSE IF U32Halves(variant.total_weight) # WrappedWeightSum(variant.attestations)
    THEN "InvalidState"
    ELSE "Ok"

\* for (hash, variant) in &entry.hash_variants, up to the first early return
RECURSIVE ValidateVariants(_, _, _)
ValidateVariants(overflow_checks, entry, hashes) ==
    IF hashes = <<>> THEN "Ok"
    ELSE LET r == ValidateVariant(overflow_checks, Head(hashes),
                                  entry.hash_variants[Head(hashes)])
         IN IF r = "Ok" THEN ValidateVariants(overflow_checks, entry, Tail(hashes))
            ELSE r

\* for entry in catalog_state.entries.values(), up to the first early return
RECURSIVE ValidateEntries(_, _, _)
ValidateEntries(overflow_checks, state, keys) ==
    IF keys = <<>> THEN "Valid"
    ELSE LET entry == state.entries[Head(keys)]
             r == IF entry.contract_key = 0 THEN "InvalidState"
                  ELSE ValidateVariants(overflow_checks, entry,
                                        KeysInOrder(DOMAIN entry.hash_variants))
         IN IF r = "Ok" THEN ValidateEntries(overflow_checks, state, Tail(keys))
            ELSE r

\* validate_state on a decoded CatalogState, in a build with or without
\* overflow checks: "Valid", "InvalidState" or "Panic"
validate_state_build(overflow_checks, state) ==
    ValidateEntries(overflow_checks, state, KeysInOrder(DOMAIN state.entries))

\* validate_state on a decoded CatalogState: "Valid" or "InvalidState".  Where
\* no weight sum leaves the range of u32 every build gives this result.
validate_state(state) == validate_state_build(FALSE, state)

(* UpdateData as the contract sees it after decoding:
     [kind |-> "Delta", decoded |-> "one",  delta |-> d]    a CatalogDelta
     [kind |-> "Delta", decoded |-> "many", deltas |-> ds]  a Vec<CatalogDelta>
     [kind |-> "Delta", decoded |-> "none"]                 bytes that decode as neither
     [kind |-> "State", decoded |-> "state", state |-> s]   a CatalogState
     [kind |-> "State", decoded |-> "none"]                 bytes that decode as no state
   The result of a step is [kind |-> "Ok", state |-> s] or [kind |-> "InvalidUpdate"]. *)
DeltaItem(d) == [kind |-> "Delta", decoded |-> "one", delta |-> d]
BatchItem(ds) == [kind |-> "Delta", decoded |-> "many", deltas |-> ds]
GarbageItem == [kind |-> "Delta", decoded |-> "none"]
FullStateItem(s) == [kind |-> "State", decoded |-> "state", state |-> s]
GarbageStateItem == [kind |-> "State", decoded |-> "none"]

\* Mutant of ApplyBatch: a delta that fails validation is skipped
RECURSIVE ApplyBatch_skip(_, _)
ApplyBatch_skip(state, deltas) ==
    IF deltas = <<>> THEN [kind |-> "Ok", state |-> state]
    ELSE IF validate_delta(Head(deltas)) # "Ok" THEN ApplyBatch_skip(state, Tail(deltas))
    ELSE ApplyBatch_skip(apply_delta_to_state(state, Head(deltas)), Tail(deltas))

\* for delta in &deltas { validate_delta(delta)?; apply_delta_to_state(..) }
RECURSIVE ApplyBatch(_, _)
ApplyBatch(state, deltas) ==
    IF deltas = <<>> THEN [kind |-> "Ok", state |-> state]
    ELSE IF validate_delta(Head(deltas)) # "Ok" THEN [kind |-> "InvalidUpdate"]
    ELSE ApplyBatch(apply_delta_to_state(state, Head(deltas)), Tail(deltas))

\* One arm of the match in update_state: UpdateData::Delta, UpdateData::State,
\* and the kinds of the `_ => {}` arm, which leave the state alone.
ApplyUpdate(state, update) ==
    IF update.kind = "Delta"
    THEN IF update.decoded = "one" THEN ApplyBatch(state, <<update.delta>>)
         ELSE IF update.decoded = "many" THEN ApplyBatch(state, update.deltas)
         ELSE [kind |-> "InvalidUpdate"]
    ELSE IF update.kind = "State"
    THEN IF update.decoded = "state"
         THEN [kind |-> "Ok", state |-> merge_catalog_states(state, update.state)]
         ELSE [kind |-> "InvalidUpdate"]
    ELSE [kind |-> "Ok", state |-> state]

\* for update in &data { ... } with the ? early returns
RECURSIVE ApplyUpdates(_, _)
ApplyUpdates(state, data) ==
    IF data = <<>> THEN [kind |-> "Ok", state |-> state]
    ELSE LET r == ApplyUpdate(state, Head(data))
         IN IF r.kind = "Ok" THEN ApplyUpdates(r.state, Tail(data)) ELSE r

\* update_state(parameters, state, data):
\* [kind |-> "Valid", state |-> s] or [kind |-> "InvalidUpdate"]
update_state(thr, state, data) ==
    LET r == ApplyUpdates(state, data)
    IN IF r.kind = "Ok"
       THEN [kind |-> "Valid", state |-> finalize_state(r.state, thr)]
       ELSE [kind |-> "InvalidUpdate"]

\* The sum apply_delta_to_state takes over the variant the delta went to leaves
\* the range of u32
DeltaOverflows(state, delta) ==
    WeightSumOverflows(apply_delta_to_state(state, delta)
                          .entries[delta.contract_key]
                          .hash_variants[delta.metadata_hash].attestations)

\* Some sum of the loop over a batch overflows, before any early return
RECURSIVE BatchOverflows(_, _)
BatchOverflows(state, deltas) ==
    IF deltas = <<>> THEN FALSE
    ELSE IF validate_delta(Head(deltas)) # "Ok" THEN FALSE
    ELSE \/ DeltaOverflows(state, Head(deltas))
         \/ BatchOverflows(apply_delta_to_state(state, Head(deltas)), Tail(deltas))

\* Some sum merge_catalog_states takes over a variant of b overflows
MergeOverflows(a, b) ==
    LET merged == merge_catalog_states(a, b)
    IN \E key \in DOMAIN b.entries : \E hash \in DOMAIN b.entries[key].hash_variants :
          WeightSumOverflows(merged.entries[key].hash_variants[hash].attestations)

\* Some sum of one arm of the match in update_state overflows
UpdateOverflows(state, update) ==
    IF update.kind = "Delta"
    THEN IF update.decoded = "one" THEN BatchOverflows(state, <<update.delta>>)
         ELSE IF update.decoded = "many" THEN BatchOverflows(state, update.deltas)
         ELSE FALSE
    ELSE IF update.kind = "State" /\ update.decoded = "state"
    THEN MergeOverflows(state, update.state)
    ELSE FALSE

RECURSIVE UpdatesOverflow(_, _)

\* The updates after one that returned r: none are reached after an error
RestOverflows(r, data) == r.kind = "Ok" /\ UpdatesOverflow(r.state, data)

\* Some sum of the loop over the updates overflows, before any early return
UpdatesOverflow(state, data) ==
    IF data = <<>> THEN FALSE
    ELSE \/ UpdateOverflows(state, Head(data))
         \/ RestOverflows(ApplyUpdate(state, Head(data)), Tail(data))

\* Some sum of step 3 of finalize_state, taken over the new weights, overflows
FinalizeOverflows(state, thr) ==
    LET final == finalize_state(state, thr)
    IN \E k \in DOMAIN state.entries : \E h \in DOMAIN state.entries[k].hash_variants :
          WeightSumOverflows(final.entries[k].hash_variants[h].attestations)

\* finalize_state is reached with the state of r and overflows
FinalizeReachedOverflows(r, thr) == r.kind = "Ok" /\ FinalizeOverflows(r.state, thr)

\* Some weight sum of the call overflows: in the loop over the updates, or in
\* the finalization that follows it if no update is rejected
SumsOverflow(thr, state, data) ==
    \/ UpdatesOverflow(state, data)
    \/ FinalizeReachedOverflows(ApplyUpdates(state, data), thr)

\* update_state in a build with or without overflow checks: with them an
\* overflowing weight sum panics ([kind |-> "Panic"]), without them it wraps.
\* The trust scores of the model stay below 2^31, so 1 + trust_score is in range.
update_state_build(overflow_checks, thr, state, data) ==
    IF overflow_checks /\ SumsOverflow(thr, state, data)
    THEN [kind |-> "Panic"]
    ELSE update_state(thr, state, data)

\* summarize_state(state): the serialized Bloom filter of the entry fingerprints
summarize_state(state) ==
    LET keys == KeysInOrder(DOMAIN state.entries)
    IN to_bytes(InsertAll(BloomNew(SummaryBits),
                          [i \in 1..Len(keys) |-> bloom_key(state.entries[keys[i]])]))

\* Mutant of IsMissing: the negation is lost
IsMissing_inverted(bloom, entry) == BloomContains(bloom, bloom_key(entry))

\* if !bloom.contains(&key)
IsMissing(bloom, entry) == ~BloomContains(bloom, bloom_key(entry))

\* Mutant of VariantDeltas: the snippet of the deltas is left empty
VariantDeltas_nosnippet(entry, variant) ==
    [i \in 1..Len(variant.attestations) |->
        CatalogDelta(entry.contract_key, variant.title, variant.description,
                     variant.mini_snippet, 0,
                     entry.size_bytes, entry.version,
                     metadata_hash(variant.title, variant.description,
                                   variant.mini_snippet),
                     variant.attestations[i])]

\* Mutant of VariantDeltas: only the first attestation of a variant is sent
VariantDeltas_first(entry, variant) ==
    [i \in 1..Min(1, Len(variant.attestations)) |->
        CatalogDelta(entry.contract_key, variant.title, variant.description,
                     variant.mini_snippet, variant.mini_snippet,
                     entry.size_bytes, entry.version,
                     metadata_hash(variant.title, variant.description,
                                   variant.mini_snippet),
                     variant.attestations[i])]

\* One CatalogDelta per attestation of a variant
VariantDeltas(entry, variant) ==
    [i \in 1..Len(variant.attestations) |->
        CatalogDelta(entry.contract_key, variant.title, variant.description,
                     variant.mini_snippet, variant.mini_snippet,
                     entry.size_bytes, entry.version,
                     metadata_hash(variant.title, variant.description,
                                   variant.mini_snippet),
                     variant.attestations[i])]

\* The deltas of the variants of an entry, in the order of the variant hashes
RECURSIVE EntryDeltas(_, _)
EntryDeltas(entry, hashes) ==
    IF hashes = <<>> THEN <<>>
    ELSE VariantDeltas(entry, entry.hash_variants[Head(hashes)])
         \o EntryDeltas(entry, Tail(hashes))

\* missing_deltas: the deltas of the entries the summary reports absent
RECURSIVE MissingDeltas(_, _, _)
MissingDeltas(state, bloom, keys) ==
    IF keys = <<>> THEN <<>>
    ELSE LET entry == state.entries[Head(keys)]
         IN (IF IsMissing(bloom, entry)
             THEN EntryDeltas(entry, KeysInOrder(DOMAIN entry.hash_variants))
             ELSE <<>>)
            \o MissingDeltas(state, bloom, Tail(keys))

\* A StateDelta payload: zero bytes, or the CBOR encoding of a Vec<CatalogDelta>
EmptyPayload == [cbor |-> "empty"]
VecPayload(deltas) == [cbor |-> "Vec<CatalogDelta>", value |-> deltas]

\* get_state_delta(state, summary): [kind |-> "Ok", delta |-> payload] or
\* [kind |-> "InvalidState"]; [kind |-> "Panic"] where bloom.contains, called
\* for the first entry, divides by a num_bits of zero
get_state_delta(state, summary) ==
    LET bloom == from_bytes(summary)
        missing_deltas ==
            MissingDeltas(state, bloom[1], KeysInOrder(DOMAIN state.entries))
    IN IF bloom = None THEN [kind |-> "InvalidState"]
       ELSE IF DOMAIN state.entries # {} /\ HashPanics(bloom[1])
       THEN [kind |-> "Panic"]
       ELSE [kind |-> "Ok",
             delta |-> IF missing_deltas = <<>> THEN EmptyPayload
                       ELSE VecPayload(missing_deltas)]

\* UpdateData::Delta(bytes) as update_state decodes it: a map decodes as a
\* CatalogDelta, an array as a Vec<CatalogDelta>, anything else as neither
DecodeDelta(bytes) ==
    IF bytes.cbor = "CatalogDelta" THEN DeltaItem(bytes.value)
    ELSE IF bytes.cbor = "Vec<CatalogDelta>" THEN BatchItem(bytes.value)
    ELSE GarbageItem

-----------------------------------------------------------------------------
(* The catalog contract driven by a host: update_state calls on cat *)

MaxCalls == 2   \* update_state calls made in a behaviour of Spec
MaxHist == 3    \* update_state calls made in a behaviour of SpecOrder

Thresholds == {1, 2}

\* A valid delta as a contributor builds it (api/contribution.rs): the hash is
\* taken over title, description and snippet; mini_snippet is carried along.
MakeDelta(key, title, pk, created) ==
    CatalogDelta(key, title, 1, 2, 1, title, Some(created),
                 metadata_hash(title, 1, 1),
                 Attestation(pk, created, 1, created, 1))

\* Valid deltas: two contract keys, two variants, two contributors, two tokens
ValidDeltas ==
    {MakeDelta(key, title, pk, created) :
        <<key, title, pk, created>> \in {1, 2} \X {1, 2} \X {1, 2} \X {1, 2}}

\* The deltas of the calls of Spec
CallDeltas ==
    {MakeDelta(1, 1, 1, 1), MakeDelta(1, 1, 1, 2), MakeDelta(1, 2, 2, 1),
     MakeDelta(2, 1, 1, 1),
     [MakeDelta(2, 2, 2, 2) EXCEPT !.attestation.contributor_pubkey = 0]}

\* The update lists of the calls of Spec: one delta; two deltas as two
\* UpdateData items; two deltas as one batch; an undecodable payload
CallData ==
    {<<DeltaItem(d)>> : d \in CallDeltas}
    \cup {<<DeltaItem(ds[1]), DeltaItem(ds[2])>> : ds \in CallDeltas \X CallDeltas}
    \cup {<<BatchItem(<<ds[1], ds[2]>>)>> : ds \in CallDeltas \X CallDeltas}
    \cup {<<GarbageItem>>}

NoCall == [made |-> FALSE]

\* The variables of the other specifications, at rest
IdleValidate == vdelta = 0 /\ verdict = "none"
IdleSync ==
    /\ node = <<>> /\ built = <<>> /\ pc = "off" /\ summaries = <<>>
    /\ payloads = <<>> /\ base = <<>> /\ rounds = 0
IdleShard ==
    /\ shard = <<>> /\ sbuilt = <<>> /\ spc = "off" /\ ssummary = <<>>
    /\ spayload = <<>> /\ sbase = <<>> /\ scall = NoCall
IdlePub == params = <<>> /\ stored = <<>> /\ pcall = NoCall
IdleBloom == bf = <<>> /\ inserted = {} /\ bround = NoCall
IdleScore == scored = NoCall
IdleCatalog == threshold = 0 /\ cat = EmptyCatalog /\ call = NoCall /\ hist = <<>>

catVars == <<threshold, cat, call, hist>>
validateVars == <<vdelta, verdict>>
syncVars == <<node, built, pc, summaries, payloads, base, rounds>>
shardVars == <<shard, sbuilt, spc, ssummary, spayload, sbase, scall>>
pubVars == <<params, stored, pcall>>
bloomVars == <<bf, inserted, bround>>
scoreVars == <<scored>>

InitCatalog ==
    /\ threshold \in Thresholds
    /\ cat = EmptyCatalog
    /\ call = NoCall
    /\ hist = <<>>
    /\ IdleValidate /\ IdleSync /\ IdleShard
    /\ IdlePub /\ IdleBloom /\ IdleScore

\* The host calls update_state(params, cat, data) and stores the returned state
Update(data) ==
    LET result == update_state(threshold, cat, data)
    IN /\ call' = [made |-> TRUE, state |-> cat, data |-> data, result |-> result]
       /\ cat' = IF result.kind = "Valid" THEN result.state ELSE cat
       /\ hist' = Append(hist, data)
       /\ UNCHANGED <<scoreVars, bloomVars, pubVars, threshold, validateVars, syncVars, shardVars>>

\* The build of the earlier calls of the run, as far as it had a bearing
BuildSoFar == IF call.made THEN call.build ELSE "any"
BuildName(overflow_checks) == IF overflow_checks THEN "checked" ELSE "unchecked"

\* The same call on a contract built with or without overflow checks.  The
\* build is that of the earlier calls of the run: it is recorded from the first
\* call on whose result it has a bearing (until then both builds return the
\* same).  Of the calls before the last one the kinds of the updates are kept.
UpdateBuild(overflow_checks, data) ==
    /\ BuildSoFar \in {"any", BuildName(overflow_checks)}
    /\ call' = [made |-> TRUE, state |-> cat, data |-> data,
                result |-> update_state_build(overflow_checks, threshold, cat, data),
                build |-> IF SumsOverflow(threshold, cat, data)
                          THEN BuildName(overflow_checks) ELSE BuildSoFar]
    /\ cat' = IF call'.result.kind = "Valid" THEN call'.result.state ELSE cat
    /\ hist' = Append(hist, [i \in 1..Len(data) |-> [kind |-> data[i].kind]])
    /\ UNCHANGED <<scoreVars, bloomVars, pubVars, threshold, validateVars, syncVars, shardVars>>

UpdateCall == \E data \in CallData : Len(hist) < MaxCalls /\ Update(data)

Next == UpdateCall

Spec == InitCatalog /\ [][Next]_vars

\* SpecOrder: valid deltas only, one per update_state call
UpdateDelta == \E d \in ValidDeltas : Len(hist) < MaxHist /\ Update(<<DeltaItem(d)>>)

NextOrder == UpdateDelta

SpecOrder == InitCatalog /\ [][NextOrder]_vars

-----------------------------------------------------------------------------
(* Claims about update_state *)

\* The deltas of an update list, in order
RECURSIVE DeltasOf(_)
DeltasOf(data) ==
    IF data = <<>> THEN <<>>
    ELSE LET u == Head(data)
         IN (IF u.decoded = "one" THEN <<u.delta>>
             ELSE IF u.decoded = "many" THEN u.deltas ELSE <<>>)
            \o DeltasOf(Tail(data))

\* A sequence rearranged by a permutation of its indices
Permuted(s, p) == [i \in 1..Len(s) |-> s[p[i]]]

\* The state after a sequence of update_state calls, each of which succeeds
RECURSIVE ApplyCalls(_, _, _)
ApplyCalls(thr, state, calls) ==
    IF calls = <<>> THEN state
    ELSE ApplyCalls(thr, update_state(thr, state, Head(calls)).state, Tail(calls))

\* C1: starting from the same state with the same threshold, applying a fixed
\* multiset of valid deltas one per update_state call yields the same final
\* CatalogState for every order of application.
C1_OrderIndependent ==
    \A p \in Permutations(1..Len(hist)) :
        ApplyCalls(threshold, EmptyCatalog, Permuted(hist, p)) = cat

\* An update list with its deltas rearranged: the deltas of a single batch,
\* or the UpdateData items of the list
PermutedData(data, p) ==
    IF Len(data) = 1 /\ data[1].decoded = "many"
    THEN <<BatchItem(Permuted(data[1].deltas, p))>>
    ELSE Permuted(data, p)

AllValid(deltas) == \A i \in 1..Len(deltas) : validate_delta(deltas[i]) = "Ok"

\* C2: for any state and any list of valid deltas passed in one update_state
\* call, every permutation of the list returns the same state, also when
\* several deltas carry the same pubkey for the same contract_key and
\* metadata_hash and differ in token or token_created_at.
C2_PermutationInvariant ==
    (call.made /\ DeltasOf(call.data) # <<>> /\ AllValid(DeltasOf(call.data))) =>
        \A p \in Permutations(1..Len(DeltasOf(call.data))) :
            update_state(threshold, call.state, PermutedData(call.data, p)) = call.result

\* The invariants I1, I2, I3, I6 of a CatalogState
I1_HashMatches(state) ==
    \A k \in DOMAIN state.entries : \A h \in DOMAIN state.entries[k].hash_variants :
        LET v == state.entries[k].hash_variants[h]
        IN h = metadata_hash(v.title, v.description, v.mini_snippet)
I2_UniquePubkeys(state) ==
    \A k \in DOMAIN state.entries : \A h \in DOMAIN state.entries[k].hash_variants :
        LET atts == state.entries[k].hash_variants[h].attestations
        IN Cardinality(PubkeysOf(atts)) = Len(atts)
I3_WeightSum(state) ==
    \A k \in DOMAIN state.entries : \A h \in DOMAIN state.entries[k].hash_variants :
        LET v == state.entries[k].hash_variants[h]
        IN v.total_weight = SumWeights(v.attestations)
I6_KeyNonEmpty(state) ==
    \A k \in DOMAIN state.entries : state.entries[k].contract_key # 0

SingleValidDelta(data) ==
    Len(data) = 1 /\ data[1].decoded = "one" /\ validate_delta(data[1].delta) = "Ok"

HasInvalidDelta(data) ==
    \E i \in 1..Len(DeltasOf(data)) : validate_delta(DeltasOf(data)[i]) # "Ok"

\* C7: an update_state call whose update list contains at least one delta that
\* fails validation, at any position, returns InvalidUpdate and no new state:
\* none of the valid deltas of the call take effect.
C7_InvalidRejectsCall ==
    (call.made /\ HasInvalidDelta(call.data)) =>
        /\ call.result = [kind |-> "InvalidUpdate"]
        /\ cat = call.state

\* C7 witness: a rejected call on a non-empty state whose first delta is
\* valid and whose second is not
C7_Witness ==
    /\ call.made /\ Len(DeltasOf(call.data)) = 2
    /\ validate_delta(DeltasOf(call.data)[1]) = "Ok"
    /\ validate_delta(DeltasOf(call.data)[2]) # "Ok"
    /\ call.result.kind = "InvalidUpdate"
    /\ DOMAIN cat.entries # {}

-----------------------------------------------------------------------------
(* validate_delta on its own: SpecValidate draws a delta and validates it *)

\* Field values on both sides of every rule of validate_delta
ProbeDeltas ==
    {CatalogDelta(key, title, description, mini, snippet, 1, None, hash,
                  Attestation(pk, nonce, difficulty, created, 1)) :
        <<key, title, description, mini, snippet, hash, pk, nonce, difficulty, created>> \in
            {<<key, title, description, mini, snippet, hash, pk, nonce, difficulty, created>> \in
                {0, 1} \X {0, 256, 257} \X {1024, 1025} \X {1, 2} \X {1, 2}
                \X {0, metadata_hash(0, 1024, 1), metadata_hash(0, 1024, 2),
                    metadata_hash(256, 1024, 1), metadata_hash(256, 1024, 2),
                    metadata_hash(257, 1024, 1), metadata_hash(257, 1024, 2),
                    metadata_hash(0, 1025, 1), metadata_hash(0, 1025, 2),
                    metadata_hash(256, 1025, 1), metadata_hash(256, 1025, 2),
                    metadata_hash(257, 1025, 1), metadata_hash(257, 1025, 2)}
                \X {0, 1} \X {0, 1} \X {0, 1} \X {0, 1} :
                    hash \in {0, metadata_hash(title, description, snippet),
                              metadata_hash(title, description, mini)}}}

InitValidate ==
    /\ vdelta \in ProbeDeltas
    /\ verdict = "none"
    /\ IdleCatalog /\ IdleSync /\ IdleShard
    /\ IdlePub /\ IdleBloom /\ IdleScore

Validate ==
    /\ verdict = "none"
    /\ verdict' = validate_delta(vdelta)
    /\ UNCHANGED <<scoreVars, bloomVars, pubVars, vdelta, catVars, syncVars, shardVars>>

NextValidate == Validate

SpecValidate == InitValidate /\ [][NextValidate]_vars

\* The rules of validate_delta other than the hash check
FieldRuleBroken(d) ==
    \/ d.contract_key = 0
    \/ d.title > 256
    \/ d.description > 1024
    \/ d.attestation.antiflood_token.nonce = 0
    \/ d.attestation.antiflood_token.difficulty = 0
    \/ d.attestation.contributor_pubkey = 0
    \/ d.attestation.token_created_at = 0

\* C8: a CatalogDelta whose metadata hash check passes is rejected with
\* InvalidUpdate if and only if contract_key is empty, or title is longer than
\* 256 bytes, or description is longer than 1024 bytes, or the nonce is empty
\* or the difficulty is 0, or the pubkey is all-zero, or token_created_at is 0;
\* a title of 256 bytes and a description of 1024 bytes are accepted.
C8_RejectedIffRuleBroken ==
    (/\ verdict # "none"
     /\ vdelta.metadata_hash
            = metadata_hash(vdelta.title, vdelta.description, vdelta.snippet)) =>
        /\ verdict \in {"Ok", "InvalidUpdate"}
        /\ (verdict = "InvalidUpdate") <=> FieldRuleBroken(vdelta)

\* C8 witness: a delta with a 256-byte title and a 1024-byte description was
\* validated and accepted
C8_Witness ==
    /\ verdict = "Ok"
    /\ vdelta.title = 256
    /\ vdelta.description = 1024

\* C9 (as claimed): a delta that satisfies every other rule is accepted if and
\* only if its metadata_hash equals H(title, description, mini_snippet) over
\* the delta's own mini_snippet field.
C9_HashBindsMiniSnippet ==
    (verdict # "none" /\ ~FieldRuleBroken(vdelta)) =>
        ((verdict = "Ok") <=>
            vdelta.metadata_hash
                = metadata_hash(vdelta.title, vdelta.description, vdelta.mini_snippet))

\* C9 (amended): a delta that satisfies every other rule is accepted if and
\* only if its metadata_hash equals H(title, description, snippet) over the
\* delta's snippet field; the delta's mini_snippet field is not read.
C9_HashBindsSnippet ==
    (verdict # "none" /\ ~FieldRuleBroken(vdelta)) =>
        ((verdict = "Ok") <=>
            vdelta.metadata_hash
                = metadata_hash(vdelta.title, vdelta.description, vdelta.snippet))

\* C9 witness: an accepted delta whose snippet and mini_snippet differ
C9_Witness ==
    /\ verdict = "Ok"
    /\ vdelta.snippet # vdelta.mini_snippet
    /\ vdelta.metadata_hash
           = metadata_hash(vdelta.title, vdelta.description, vdelta.snippet)

-----------------------------------------------------------------------------
(* Catalog anti-entropy between two replicas, as in
   tests/summarize_delta_tests.rs sync_convergence: both replicas are built
   from the empty catalog by valid deltas; then, with no new writes, rounds of
   summarize / get_state_delta / update_state are repeated. *)

MaxBuild == 2    \* deltas each replica is built from
MaxRounds == 2   \* exchange rounds counted

Replicas == {1, 2}
Other(r) == 3 - r

SyncDeltas ==
    {MakeDelta(1, 1, 1, 1), MakeDelta(1, 1, 2, 1), MakeDelta(1, 2, 2, 1),
     MakeDelta(2, 1, 1, 1), MakeDelta(2, 2, 1, 1)}

InitSync ==
    /\ threshold \in Thresholds
    /\ node = [r \in Replicas |-> EmptyCatalog]
    /\ built = [r \in Replicas |-> 0]
    /\ pc = "build"
    /\ summaries = <<>>
    /\ payloads = <<>>
    /\ base = <<>>
    /\ rounds = 0
    /\ cat = EmptyCatalog /\ call = NoCall /\ hist = <<>>
    /\ IdleValidate /\ IdleShard
    /\ IdlePub /\ IdleBloom /\ IdleScore

\* A contributor's delta is applied to one replica
Build(r, d) ==
    /\ pc = "build"
    /\ built[r] < MaxBuild
    /\ node' = [node EXCEPT ![r] = update_state(threshold, node[r], <<DeltaItem(d)>>).state]
    /\ built' = [built EXCEPT ![r] = @ + 1]
    /\ UNCHANGED <<scoreVars, bloomVars, pubVars, threshold, pc, summaries, payloads, base, rounds,
                   cat, call, hist, validateVars, shardVars>>

\* Both replicas summarize their state
Summarize ==
    /\ pc \in {"build", "idle"}
    /\ summaries' = [r \in Replicas |-> summarize_state(node[r])]
    /\ base' = node
    /\ pc' = "summarized"
    /\ UNCHANGED <<scoreVars, bloomVars, pubVars, threshold, node, built, payloads, rounds,
                   cat, call, hist, validateVars, shardVars>>

\* Each replica computes the delta for its peer from the peer's summary
Diff ==
    /\ pc = "summarized"
    /\ payloads' = [r \in Replicas |-> get_state_delta(node[Other(r)], summaries[r]).delta]
    /\ pc' = "diffed"
    /\ UNCHANGED <<scoreVars, bloomVars, pubVars, threshold, node, built, summaries, base, rounds,
                   cat, call, hist, validateVars, shardVars>>

\* What a replica holds after it was handed a payload: a non-empty payload is
\* passed to update_state as one UpdateData::Delta
Received(state, bytes) ==
    IF bytes = EmptyPayload THEN state
    ELSE LET result == update_state(threshold, state, <<DecodeDelta(bytes)>>)
         IN IF result.kind = "Valid" THEN result.state ELSE state

\* Both replicas apply the payload they were sent
Apply ==
    /\ pc = "diffed"
    /\ node' = [r \in Replicas |-> Received(node[r], payloads[r])]
    /\ rounds' = Min(rounds + 1, MaxRounds)
    /\ pc' = "idle"
    /\ summaries' = <<>>
    /\ payloads' = <<>>
    /\ UNCHANGED <<scoreVars, bloomVars, pubVars, threshold, built, base, cat, call, hist, validateVars, shardVars>>

NextSync ==
    \/ \E r \in Replicas, d \in SyncDeltas : Build(r, d)
    \/ Summarize
    \/ Diff
    \/ Apply

SpecSync == InitSync /\ [][NextSync]_vars

\* C3: two replicas built from the empty catalog by valid deltas that keep
\* exchanging summaries and deltas, with no new writes, eventually hold equal
\* CatalogStates (entries, variants, attestations, entry scalars, contributor
\* scores).  A round is a function of the two states, so a round that leaves
\* both replicas as they were is repeated unchanged for ever: by then the
\* replicas must be equal.
C3_Converges ==
    (pc = "idle" /\ node = base) => node[1] = node[2]

Keys(state) == DOMAIN state.entries

\* No fingerprint of an entry the peer lacks is a false positive of the peer's
\* summary
NoFalsePositive(states) ==
    \A r \in Replicas : \A k \in Keys(states[Other(r)]) \ Keys(states[r]) :
        ~BloomContains(from_bytes(summarize_state(states[r]))[1],
                       bloom_key(states[Other(r)].entries[k]))

\* C4: when both summaries are taken first and each replica applies the delta
\* its peer computed from them, both replicas hold the same set of contract
\* keys, the union of the keys of the two states, provided no fingerprint of an
\* entry the peer lacks is a false positive of the peer's summary.
C4_KeysConvergeInOneRound ==
    (pc = "idle" /\ NoFalsePositive(base)) =>
        /\ Keys(node[1]) = Keys(node[2])
        /\ Keys(node[1]) = Keys(base[1]) \cup Keys(base[2])

\* C4 witness: a round was completed between replicas each of which held a
\* contract key the other lacked
C4_Witness ==
    /\ pc = "idle"
    /\ NoFalsePositive(base)
    /\ Keys(base[1]) \ Keys(base[2]) # {}
    /\ Keys(base[2]) \ Keys(base[1]) # {}
    /\ Keys(node[1]) = Keys(node[2])

-----------------------------------------------------------------------------
(* contract-fulltext-shard.  A ShardState is
     [shard_id |-> u8,
      index |-> the function from each indexed word to its Vec<TermEntry>]
   Words, contract keys and snippets are strings, given by their length. *)

SHARD_COUNT == 16

\* shard_for_word: sha256(word) mod shard_count
shard_for_word(word, shard_count) == Digest(0, <<word>>) % shard_count

TermEntry(contract_key, snippet, tf_idf_score) ==
    [contract_key |-> contract_key, snippet |-> snippet, tf_idf_score |-> tf_idf_score]

ShardDeltaEntry(word, contract_key, snippet, tf_idf_score) ==
    [word |-> word, contract_key |-> contract_key, snippet |-> snippet,
     tf_idf_score |-> tf_idf_score]

\* antiflood_token: the nonce by its length, and the difficulty
ShardDelta(entries, nonce, difficulty) ==
    [entries |-> entries, antiflood_token |-> [nonce |-> nonce, difficulty |-> difficulty]]

EmptyShard(shard_id) == [shard_id |-> shard_id, index |-> <<>>]

\* bloom_key(word, contract_key): word || 0xFF || contract_key
shard_bloom_key(word, contract_key) == <<word, 255, contract_key>>

\* Mutant of validate_shard_delta: the shard of a word is not compared
validate_shard_delta_anyshard(state, delta) ==
    IF delta.antiflood_token.nonce = 0 \/ delta.antiflood_token.difficulty = 0
    THEN "InvalidUpdate"
    ELSE IF \E i \in 1..Len(delta.entries) : delta.entries[i].word = 0
    THEN "InvalidUpdate"
    ELSE "Ok"

\* validate_shard_delta(state, delta)
validate_shard_delta(state, delta) ==
    IF delta.antiflood_token.nonce = 0 \/ delta.antiflood_token.difficulty = 0
    THEN "InvalidUpdate"
    ELSE IF \E i \in 1..Len(delta.entries) :
               \/ delta.entries[i].word = 0
               \/ shard_for_word(delta.entries[i].word, SHARD_COUNT) # state.shard_id
    THEN "InvalidUpdate"
    ELSE "Ok"

\* entries.iter_mut().find(|e| e.contract_key == contract_key): the position of
\* the first such entry, 0 for None
FindTerm(entries, contract_key) ==
    LET found == {i \in 1..Len(entries) : entries[i].contract_key = contract_key}
    IN IF found = {} THEN 0 ELSE CHOOSE i \in found : \A j \in found : i <= j

\* Stable insertion of one entry into a sequence sorted by contract_key
RECURSIVE InsertByContractKey(_, _)
InsertByContractKey(sorted, e) ==
    IF sorted = <<>> THEN <<e>>
    ELSE IF Head(sorted).contract_key <= e.contract_key
         THEN <<Head(sorted)>> \o InsertByContractKey(Tail(sorted), e)
         ELSE <<e>> \o sorted

\* entries.sort_by(|a, b| a.contract_key.cmp(&b.contract_key)): a stable sort
RECURSIVE SortByContractKey(_)
SortByContractKey(entries) ==
    IF entries = <<>> THEN <<>>
    ELSE InsertByContractKey(SortByContractKey(SubSeq(entries, 1, Len(entries) - 1)),
                             entries[Len(entries)])

\* Mutant of MaxWins: an equal score replaces the snippet as well
MaxWins_inclusive(entries, delta_entry) ==
    LET i == FindTerm(entries, delta_entry.contract_key)
    IN IF i # 0
       THEN IF delta_entry.tf_idf_score >= entries[i].tf_idf_score
            THEN [entries EXCEPT ![i].tf_idf_score = delta_entry.tf_idf_score,
                                 ![i].snippet = delta_entry.snippet]
            ELSE entries
       ELSE Append(entries, TermEntry(delta_entry.contract_key, delta_entry.snippet,
                                      delta_entry.tf_idf_score))

\* One delta entry against the entries of its word: a strictly greater score
\* replaces score and snippet, an unknown contract key is pushed
MaxWins(entries, delta_entry) ==
    LET i == FindTerm(entries, delta_entry.contract_key)
    IN IF i # 0
       THEN IF delta_entry.tf_idf_score > entries[i].tf_idf_score
            THEN [entries EXCEPT ![i].tf_idf_score = delta_entry.tf_idf_score,
                                 ![i].snippet = delta_entry.snippet]
            ELSE entries
       ELSE Append(entries, TermEntry(delta_entry.contract_key, delta_entry.snippet,
                                      delta_entry.tf_idf_score))

\* The loop of apply_shard_delta over delta.entries
RECURSIVE ApplyShardEntries(_, _)
ApplyShardEntries(index, delta_entries) ==
    IF delta_entries = <<>> THEN index
    ELSE LET delta_entry == Head(delta_entries)
             entries == IF delta_entry.word \in DOMAIN index
                        THEN index[delta_entry.word] ELSE <<>>
         IN ApplyShardEntries(
                MapPut(index, delta_entry.word,
                       SortByContractKey(MaxWins(entries, delta_entry))),
                Tail(delta_entries))

\* apply_shard_delta(state, delta)
apply_shard_delta(state, delta) ==
    [state EXCEPT !.index = ApplyShardEntries(@, delta.entries)]

\* validate_state of the shard contract
shard_validate_state(state) ==
    IF \A word \in DOMAIN state.index :
          /\ shard_for_word(word, SHARD_COUNT) = state.shard_id
          /\ \A i, j \in 1..Len(state.index[word]) :
                i # j => state.index[word][i].contract_key
                         # state.index[word][j].contract_key
    THEN "Valid" ELSE "InvalidState"

\* for delta in &deltas { validate_shard_delta(..)?; apply_shard_delta(..) }
RECURSIVE ApplyShardBatch(_, _)
ApplyShardBatch(state, deltas) ==
    IF deltas = <<>> THEN [kind |-> "Ok", state |-> state]
    ELSE IF validate_shard_delta(state, Head(deltas)) # "Ok" THEN [kind |-> "InvalidUpdate"]
    ELSE ApplyShardBatch(apply_shard_delta(state, Head(deltas)), Tail(deltas))

\* for b_entry in b_entries: an entry whose contract key a_entries holds keeps
\* the greater score (and the snippet that came with it), any other is pushed
RECURSIVE MergeTermEntries(_, _)
MergeTermEntries(a_entries, b_entries) ==
    IF b_entries = <<>> THEN a_entries
    ELSE MergeTermEntries(MaxWins(a_entries, Head(b_entries)), Tail(b_entries))

\* merge_shard_states(a, b): a after b was merged into it; a.shard_id stays and
\* b.shard_id is not read
merge_shard_states(a, b) ==
    [a EXCEPT !.index =
        [word \in (DOMAIN a.index) \cup (DOMAIN b.index) |->
            IF word \in DOMAIN b.index
            THEN SortByContractKey(
                     MergeTermEntries(IF word \in DOMAIN a.index THEN a.index[word]
                                      ELSE <<>>,
                                      b.index[word]))
            ELSE a.index[word]]]

\* One arm of the match in the shard's update_state
ApplyShardUpdate(state, update) ==
    IF update.kind = "Delta"
    THEN IF update.decoded = "one" THEN ApplyShardBatch(state, <<update.delta>>)
         ELSE IF update.decoded = "many" THEN ApplyShardBatch(state, update.deltas)
         ELSE [kind |-> "InvalidUpdate"]
    ELSE IF update.kind = "State"
    THEN IF update.decoded = "state"
         THEN [kind |-> "Ok", state |-> merge_shard_states(state, update.state)]
         ELSE [kind |-> "InvalidUpdate"]
    ELSE [kind |-> "Ok", state |-> state]

\* for update in &data { ... } with the ? early returns
RECURSIVE ApplyShardUpdates(_, _)
ApplyShardUpdates(state, data) ==
    IF data = <<>> THEN [kind |-> "Ok", state |-> state]
    ELSE LET r == ApplyShardUpdate(state, Head(data))
         IN IF r.kind = "Ok" THEN ApplyShardUpdates(r.state, Tail(data)) ELSE r

\* update_state of the shard contract:
\* [kind |-> "Valid", state |-> s] or [kind |-> "InvalidUpdate"]
shard_update_state(state, data) ==
    LET r == ApplyShardUpdates(state, data)
    IN IF r.kind = "Ok" THEN [kind |-> "Valid", state |-> r.state]
       ELSE [kind |-> "InvalidUpdate"]

\* The fingerprints of the entries of the words, in index order
RECURSIVE ShardBloomKeys(_, _)
ShardBloomKeys(state, words) ==
    IF words = <<>> THEN <<>>
    ELSE [i \in 1..Len(state.index[Head(words)]) |->
             shard_bloom_key(Head(words), state.index[Head(words)][i].contract_key)]
         \o ShardBloomKeys(state, Tail(words))

\* summarize_state of the shard contract
shard_summarize_state(state) ==
    to_bytes(InsertAll(BloomNew(SummaryBits),
                       ShardBloomKeys(state, KeysInOrder(DOMAIN state.index))))

\* The entries of one word the summary reports absent
RECURSIVE MissingTerms(_, _, _)
MissingTerms(bloom, word, entries) ==
    IF entries = <<>> THEN <<>>
    ELSE (IF ~BloomContains(bloom, shard_bloom_key(word, Head(entries).contract_key))
          THEN <<ShardDeltaEntry(word, Head(entries).contract_key,
                                 Head(entries).snippet, Head(entries).tf_idf_score)>>
          ELSE <<>>)
         \o MissingTerms(bloom, word, Tail(entries))

\* missing_entries
RECURSIVE MissingEntries(_, _, _)
MissingEntries(state, bloom, words) ==
    IF words = <<>> THEN <<>>
    ELSE MissingTerms(bloom, Head(words), state.index[Head(words)])
         \o MissingEntries(state, bloom, Tail(words))

\* The CBOR encoding of one ShardDelta
ShardPayload(delta) == [cbor |-> "ShardDelta", value |-> delta]

\* get_state_delta of the shard contract: [kind |-> "Ok", delta |-> payload] or
\* [kind |-> "InvalidState"]; [kind |-> "Panic"] where bloom.contains, called
\* for the first entry of the index, divides by a num_bits of zero
shard_get_state_delta(state, summary) ==
    LET bloom == from_bytes(summary)
        missing_entries ==
            MissingEntries(state, bloom[1], KeysInOrder(DOMAIN state.index))
    IN IF bloom = None THEN [kind |-> "InvalidState"]
       ELSE IF (\E word \in DOMAIN state.index : state.index[word] # <<>>)
               /\ HashPanics(bloom[1])
       THEN [kind |-> "Panic"]
       ELSE [kind |-> "Ok",
             delta |-> IF missing_entries = <<>> THEN EmptyPayload
                       ELSE ShardPayload(ShardDelta(missing_entries, 8, 1))]

\* UpdateData::Delta(bytes) as the shard's update_state decodes it
DecodeShardDelta(bytes) ==
    IF bytes.cbor = "ShardDelta" THEN DeltaItem(bytes.value)
    ELSE IF bytes.cbor = "Vec<ShardDelta>" THEN BatchItem(bytes.value)
    ELSE GarbageItem

-----------------------------------------------------------------------------
(* Shard anti-entropy between two replicas of one shard, as in
   contract-fulltext-shard/tests/summarize_delta_tests.rs sync_convergence:
   both replicas are built from the empty shard by deltas; then, with no new
   writes, rounds of summarize / get_state_delta / update_state are repeated. *)

ShardIds == {0, 1}

\* Words 9 and 25 belong to shard 0, word 10 to shard 1; 0 is the empty word
ShardDeltas ==
    {ShardDelta(<<ShardDeltaEntry(w, c, sn, sc)>>, 8, 1) :
        w \in {0, 9, 10}, c \in {1, 2}, sn \in {1, 2}, sc \in {5, 7}}
    \cup {ShardDelta(<<ShardDeltaEntry(9, 2, 1, 5), ShardDeltaEntry(25, 1, 2, 7)>>, 8, 1),
          ShardDelta(<<ShardDeltaEntry(9, 1, 1, 5)>>, 0, 1)}

InitShardSync ==
    /\ \E id \in ShardIds : shard = [r \in Replicas |-> EmptyShard(id)]
    /\ sbuilt = [r \in Replicas |-> 0]
    /\ spc = "build"
    /\ ssummary = <<>>
    /\ spayload = <<>>
    /\ sbase = <<>>
    /\ IdleCatalog /\ IdleValidate /\ IdleSync
    /\ IdlePub /\ IdleBloom /\ IdleScore
    /\ scall = NoCall

\* What a shard replica holds after update_state was called on it
ShardReceived(state, data) ==
    LET result == shard_update_state(state, data)
    IN IF result.kind = "Valid" THEN result.state ELSE state

\* A contributor's delta is handed to one replica
ShardBuild(r, d) ==
    /\ spc = "build"
    /\ sbuilt[r] < MaxBuild
    /\ shard' = [shard EXCEPT ![r] = ShardReceived(shard[r], <<DeltaItem(d)>>)]
    /\ sbuilt' = [sbuilt EXCEPT ![r] = @ + 1]
    /\ UNCHANGED <<scoreVars, bloomVars, pubVars, scall, spc, ssummary, spayload, sbase, catVars, validateVars, syncVars>>

\* Both replicas summarize their state
ShardSummarize ==
    /\ spc \in {"build", "idle"}
    /\ ssummary' = [r \in Replicas |-> shard_summarize_state(shard[r])]
    /\ sbase' = shard
    /\ spc' = "summarized"
    /\ UNCHANGED <<scoreVars, bloomVars, pubVars, scall, shard, sbuilt, spayload, catVars, validateVars, syncVars>>

\* Each replica computes the delta for its peer from the peer's summary
ShardDiff ==
    /\ spc = "summarized"
    /\ spayload' = [r \in Replicas |->
                       shard_get_state_delta(shard[Other(r)], ssummary[r]).delta]
    /\ spc' = "diffed"
    /\ UNCHANGED <<scoreVars, bloomVars, pubVars, scall, shard, sbuilt, ssummary, sbase, catVars, validateVars, syncVars>>

\* Both replicas apply the payload they were sent; an empty payload is not
\* passed to update_state
ShardApply ==
    /\ spc = "diffed"
    /\ shard' = [r \in Replicas |->
                    IF spayload[r] = EmptyPayload THEN shard[r]
                    ELSE ShardReceived(shard[r], <<DecodeShardDelta(spayload[r])>>)]
    /\ spc' = "idle"
    /\ ssummary' = <<>>
    /\ spayload' = <<>>
    /\ UNCHANGED <<scoreVars, bloomVars, pubVars, scall, sbuilt, sbase, catVars, validateVars, syncVars>>

NextShardSync ==
    \/ \E r \in Replicas, d \in ShardDeltas : ShardBuild(r, d)
    \/ ShardSummarize
    \/ ShardDiff
    \/ ShardApply

SpecShardSync == InitShardSync /\ [][NextShardSync]_vars

\* C5: two replicas of the same shard_id that keep exchanging summaries and
\* deltas, with no new writes, eventually hold identical index contents: the
\* same (term, contract_key) pairs with the same tf_idf_score and snippet.  A
\* round is a function of the two states, so a round that leaves both replicas
\* as they were is repeated unchanged for ever: by then the indexes must be
\* identical.
C5_ShardConverges ==
    (spc = "idle" /\ shard = sbase) => shard[1].index = shard[2].index

-----------------------------------------------------------------------------
(* Claims about the status of catalog entries *)

\* The attestation counts of the variants of an entry, as a bag given by the
\* number of variants that have each count
VariantsWithCount(entry, n) ==
    Cardinality({h \in DOMAIN entry.hash_variants :
                    Len(entry.hash_variants[h].attestations) = n})

\* best: the largest count, 0 for an entry without variants
BestCount(entry) ==
    IF DOMAIN entry.hash_variants = {} THEN 0
    ELSE SetMax({Len(entry.hash_variants[h].attestations) : h \in DOMAIN entry.hash_variants})

\* second: the next count in descending order, 0 if there is no second variant
SecondCount(entry) ==
    LET best == BestCount(entry)
        lower == {Len(entry.hash_variants[h].attestations) : h \in DOMAIN entry.hash_variants}
                 \ {best}
    IN IF VariantsWithCount(entry, best) >= 2 THEN best
       ELSE IF lower = {} THEN 0 ELSE SetMax(lower)

StatusRule(entry, thr) ==
    IF BestCount(entry) >= thr /\ SecondCount(entry) * 100 > BestCount(entry) * 30
    THEN "Disputed"
    ELSE IF BestCount(entry) >= thr THEN "Confirmed"
    ELSE "Pending"

\* SpecStatus: one contract key with three competing variants; every call adds
\* one or two attestations by new contributors to one of the variants
MaxCount == 4   \* attestations a variant receives

StatusVariants == {1, 2, 3}
StatusThresholds == {1, 2, 3}

\* The number of attestations the variant with title v has in the catalog
Attested(v) ==
    IF 1 \in DOMAIN cat.entries
       /\ metadata_hash(v, 1, 1) \in DOMAIN cat.entries[1].hash_variants
    THEN Len(cat.entries[1].hash_variants[metadata_hash(v, 1, 1)].attestations)
    ELSE 0

InitStatus ==
    /\ threshold \in StatusThresholds
    /\ cat = EmptyCatalog
    /\ call = NoCall
    /\ hist = <<>>
    /\ IdleValidate /\ IdleSync /\ IdleShard
    /\ IdlePub /\ IdleBloom /\ IdleScore

\* update_state with a batch of n deltas for variant v, each by a contributor
\* who has not attested it yet
Attest(v, n) ==
    LET data == <<BatchItem([i \in 1..n |-> MakeDelta(1, v, 10 * v + Attested(v) + i, 1)])>>
        result == update_state(threshold, cat, data)
    IN /\ Attested(v) + n <= MaxCount
       /\ call' = [made |-> TRUE, state |-> cat, data |-> data, result |-> result]
       /\ cat' = IF result.kind = "Valid" THEN result.state ELSE cat
       /\ UNCHANGED <<scoreVars, bloomVars, pubVars, threshold, hist, validateVars, syncVars, shardVars>>

\* update_state with the full state of a peer that holds n attestations of
\* variant v by contributors who have not attested it here
MergeAttested(v, n) ==
    LET peer == update_state(threshold, EmptyCatalog,
                    <<BatchItem([i \in 1..n |->
                          MakeDelta(1, v, 10 * v + Attested(v) + i, 1)])>>).state
    IN /\ Attested(v) + n <= MaxCount
       /\ call' = [made |-> TRUE, state |-> cat, data |-> <<FullStateItem(peer)>>,
                   result |-> update_state(threshold, cat, <<FullStateItem(peer)>>)]
       /\ cat' = IF call'.result.kind = "Valid" THEN call'.result.state ELSE cat
       /\ UNCHANGED <<scoreVars, bloomVars, pubVars, threshold, hist, validateVars, syncVars, shardVars>>

NextStatus ==
    \/ \E v \in StatusVariants, n \in {1, 2} : Attest(v, n)
    \/ \E n \in {1, 2} : MergeAttested(2, n)

SpecStatus == InitStatus /\ [][NextStatus]_vars

\* C11: in the state returned by every successful update_state call, each
\* entry's status is Disputed if best >= T and second*100 > best*30, Confirmed
\* if best >= T otherwise, and Pending if best < T, where best and second are
\* the largest and next largest attestation counts of its variants.
C11_StatusRule ==
    (call.made /\ call.result.kind = "Valid") =>
        \A k \in DOMAIN call.result.state.entries :
            call.result.state.entries[k].status
                = StatusRule(call.result.state.entries[k], threshold)

\* C11 witness: a successful call returned an entry that is Confirmed although
\* it has a second variant, the second count being at most 30% of the best
C11_Witness ==
    /\ call.made /\ call.result.kind = "Valid"
    /\ \E k \in DOMAIN call.result.state.entries :
          /\ call.result.state.entries[k].status = "Confirmed"
          /\ SecondCount(call.result.state.entries[k]) > 0

-----------------------------------------------------------------------------
(* A replica diffs its state against its own summary: one catalog replica and
   one shard replica are built by deltas, summarized, and handed their own
   summary, as in tests/summarize_delta_tests.rs no_delta_when_synced. *)

InitSelfDiff ==
    /\ threshold \in Thresholds
    /\ node = [r \in Replicas |-> EmptyCatalog]
    /\ built = [r \in Replicas |-> 0]
    /\ pc = "build"
    /\ summaries = <<>> /\ payloads = <<>> /\ base = <<>> /\ rounds = 0
    /\ \E id \in ShardIds : shard = [r \in Replicas |-> EmptyShard(id)]
    /\ sbuilt = [r \in Replicas |-> 0]
    /\ spc = "build"
    /\ ssummary = <<>> /\ spayload = <<>> /\ sbase = <<>>
    /\ cat = EmptyCatalog /\ call = NoCall /\ hist = <<>>
    /\ IdleValidate
    /\ IdlePub /\ IdleBloom /\ IdleScore
    /\ scall = NoCall

\* summarize_state of both contracts on the replica's state
SelfSummarize ==
    /\ pc = "build"
    /\ summaries' = <<summarize_state(node[1])>>
    /\ ssummary' = <<shard_summarize_state(shard[1])>>
    /\ pc' = "summarized"
    /\ UNCHANGED <<scoreVars, bloomVars, pubVars, scall, threshold, node, built, payloads, base, rounds,
                   shard, sbuilt, spc, spayload, sbase,
                   cat, call, hist, validateVars>>

\* get_state_delta of both contracts on the replica's state and own summary
SelfDiff ==
    /\ pc = "summarized"
    /\ payloads' = <<get_state_delta(node[1], summaries[1]).delta>>
    /\ spayload' = <<shard_get_state_delta(shard[1], ssummary[1]).delta>>
    /\ pc' = "diffed"
    /\ UNCHANGED <<scoreVars, bloomVars, pubVars, scall, threshold, node, built, summaries, base, rounds,
                   shard, sbuilt, spc, ssummary, sbase,
                   cat, call, hist, validateVars>>

NextSelfDiff ==
    \/ \E d \in SyncDeltas : Build(1, d)
    \/ \E d \in ShardDeltas : pc = "build" /\ ShardBuild(1, d)
    \/ SelfSummarize
    \/ SelfDiff

SpecSelfDiff == InitSelfDiff /\ [][NextSelfDiff]_vars

\* C12: for the catalog contract and for the shard contract,
\* get_state_delta(S, summarize_state(S)) is the empty payload.
C12_SelfDiffEmpty ==
    pc = "diffed" => (payloads[1] = EmptyPayload /\ spayload[1] = EmptyPayload)

\* C12 witness: the diff was taken on a catalog with two entries and a shard
\* with two indexed words
C12_Witness ==
    /\ pc = "diffed"
    /\ Cardinality(DOMAIN node[1].entries) = 2
    /\ Cardinality(DOMAIN shard[1].index) = 2

-----------------------------------------------------------------------------
(* web-container-contract: the signed publication contract.

   Parameters are [len |-> number of bytes, key |-> the first 32 bytes]; key 0
   stands for 32 bytes that are no Ed25519 point.

   A State is the empty byte string, [kind |-> "empty"], or
     [kind |-> "bytes",
      cut |-> where the byte string ends early: "metadata_size", "metadata",
              "web_size", "web", or "none" when all four parts are present,
      metadata_size |-> the first u64,
      metadata |-> what the metadata bytes decode to: [cbor |-> "garbage"] or
                   [cbor |-> "WebContainerMetadata", version |-> u32,
                    signature |-> [signer |-> key, message |-> <<version, web>>]],
      web_size |-> the second u64,
      web |-> the web bytes, given by a content number]
   A signature is given by the key that made it and the message it was made
   over. *)

MAX_METADATA_SIZE == 1024
MAX_WEB_SIZE == 104857600

\* VerifyingKey::from_bytes succeeds
ValidKey(key) == key # 0

\* signing_key.sign(message)
Sign(key, message) == [signer |-> key, message |-> message]

\* verifying_key.verify_strict(message, signature) succeeds
verify_strict(key, message, signature) ==
    signature.signer = key /\ signature.message = message

\* version.to_be_bytes() followed by the web bytes
SignedMessage(version, web_size, web) == <<version, web_size, web>>

WebContainerMetadata(version, signature) ==
    [cbor |-> "WebContainerMetadata", version |-> version, signature |-> signature]

EmptyState == [kind |-> "empty"]

\* cursor.read_u64 of the metadata size
HasMetadataSize(state) == state.kind = "bytes" /\ state.cut # "metadata_size"
\* cursor.read_exact of the metadata bytes
HasMetadata(state) == state.cut \notin {"metadata_size", "metadata"}
\* from_reader::<WebContainerMetadata>
MetadataDecodes(state) == state.metadata.cbor = "WebContainerMetadata"
\* cursor.read_u64 of the web size
HasWebSize(state) == state.cut \notin {"metadata_size", "metadata", "web_size"}
\* cursor.read_exact of the web bytes
HasWeb(state) == state.cut = "none"

\* The metadata of a state as update_state, summarize_state and
\* get_state_delta read it: no size limit is applied
ReadMetadata(state) ==
    IF ~HasMetadataSize(state) THEN [kind |-> "Other"]
    ELSE IF ~HasMetadata(state) THEN [kind |-> "Other"]
    ELSE IF ~MetadataDecodes(state) THEN [kind |-> "Deser"]
    ELSE [kind |-> "Ok", metadata |-> state.metadata]

\* Mutant of web_validate_state: the metadata size bound is exclusive
web_validate_state_exclusive(parameters, state) ==
    IF parameters.len < 32 THEN "Other"
    ELSE IF ~ValidKey(parameters.key) THEN "Other"
    ELSE IF ~HasMetadataSize(state) THEN "Other"
    ELSE IF state.metadata_size >= MAX_METADATA_SIZE THEN "Other"
    ELSE IF ~HasMetadata(state) THEN "Other"
    ELSE IF ~MetadataDecodes(state) THEN "Deser"
    ELSE IF state.metadata.version = 0 THEN "InvalidState"
    ELSE IF ~HasWebSize(state) THEN "Other"
    ELSE IF state.web_size > MAX_WEB_SIZE THEN "Other"
    ELSE IF ~HasWeb(state) THEN "Other"
    ELSE IF ~verify_strict(parameters.key,
                           SignedMessage(state.metadata.version, state.web_size, state.web),
                           state.metadata.signature)
    THEN "Other"
    ELSE "Valid"

\* validate_state(parameters, state): "Valid" or the kind of the error
web_validate_state(parameters, state) ==
    IF parameters.len < 32 THEN "Other"
    ELSE IF ~ValidKey(parameters.key) THEN "Other"
    ELSE IF ~HasMetadataSize(state) THEN "Other"
    ELSE IF state.metadata_size > MAX_METADATA_SIZE THEN "Other"
    ELSE IF ~HasMetadata(state) THEN "Other"
    ELSE IF ~MetadataDecodes(state) THEN "Deser"
    ELSE IF state.metadata.version = 0 THEN "InvalidState"
    ELSE IF ~HasWebSize(state) THEN "Other"
    ELSE IF state.web_size > MAX_WEB_SIZE THEN "Other"
    ELSE IF ~HasWeb(state) THEN "Other"
    ELSE IF ~verify_strict(parameters.key,
                           SignedMessage(state.metadata.version, state.web_size, state.web),
                           state.metadata.signature)
    THEN "Other"
    ELSE "Valid"

\* UpdateData of the publication contract
StateItem(state) == [kind |-> "State", state |-> state]
OtherItem == [kind |-> "Delta"]

\* Mutant of VersionTooLow: an equal version passes
VersionTooLow_strict(version, current_version) == version < current_version

\* metadata.version <= current_version
VersionTooLow(version, current_version) == version <= current_version

\* update_state(parameters, state, data): [kind |-> "Valid", state |-> s] or
\* [kind |-> the kind of the error]
web_update_state(state, data) ==
    LET current == IF state.kind = "empty"
                   THEN [kind |-> "Ok", metadata |-> [version |-> 0]]
                   ELSE ReadMetadata(state)
    IN IF current.kind # "Ok" THEN [kind |-> current.kind]
       ELSE IF data = <<>> \/ Head(data).kind # "State" THEN [kind |-> "InvalidUpdate"]
       ELSE LET new_state == Head(data).state
                new == ReadMetadata(new_state)
            IN IF new.kind # "Ok" THEN [kind |-> new.kind]
               ELSE IF VersionTooLow(new.metadata.version, current.metadata.version)
               THEN [kind |-> "InvalidUpdateWithInfo"]
               ELSE [kind |-> "Valid", state |-> new_state]

\* A summary: zero bytes, or the CBOR encoding of a value
EmptySummary == [cbor |-> "empty"]
VersionSummary(version) == [cbor |-> "u32", value |-> version]

\* summarize_state(parameters, state): [kind |-> "Ok", summary |-> bytes] or
\* [kind |-> the kind of the error]
web_summarize_state(state) ==
    IF state.kind = "empty" THEN [kind |-> "Ok", summary |-> EmptySummary]
    ELSE LET current == ReadMetadata(state)
         IN IF current.kind # "Ok" THEN [kind |-> current.kind]
            ELSE [kind |-> "Ok", summary |-> VersionSummary(current.metadata.version)]

\* Mutant of IsNewer: an equal version is sent too
IsNewer_inclusive(current_version, summary_version) == current_version >= summary_version

\* current_version > summary_version
IsNewer(current_version, summary_version) == current_version > summary_version

\* get_state_delta(parameters, state, summary): [kind |-> "Ok", delta |-> the
\* state or the empty state] or [kind |-> the kind of the error]
web_get_state_delta(state, summary) ==
    IF state.kind = "empty" THEN [kind |-> "Ok", delta |-> EmptyState]
    ELSE LET current == ReadMetadata(state)
         IN IF current.kind # "Ok" THEN [kind |-> current.kind]
            ELSE IF summary.cbor # "u32" THEN [kind |-> "Deser"]
            ELSE IF IsNewer(current.metadata.version, summary.value)
            THEN [kind |-> "Ok", delta |-> state]
            ELSE [kind |-> "Ok", delta |-> EmptyState]

-----------------------------------------------------------------------------
(* The publication contract driven by a host: the host holds the state, calls
   update_state and stores what it returns, and calls validate_state,
   summarize_state and get_state_delta. *)

MaxPubVersion == 3   \* versions of the states handed to update_state

\* 16 bytes; 32 bytes that are no key; the key 1; the key 1 and a vanity nonce
PubParams ==
    {[len |-> 16, key |-> 1], [len |-> 32, key |-> 0],
     [len |-> 32, key |-> 1], [len |-> 40, key |-> 1]}

\* create_test_state(version, web, signing_key): a 5-byte web content
TestState(version, web, signing_key) ==
    [kind |-> "bytes", cut |-> "none", metadata_size |-> 96,
     metadata |-> WebContainerMetadata(version,
                      Sign(signing_key, SignedMessage(version, 5, web))),
     web_size |-> 5, web |-> web]

\* The states handed to update_state: well-formed states signed by key 1 or
\* key 2, a state whose metadata is no CBOR, one cut short in its metadata,
\* and the empty byte string
UpdateStates ==
    {TestState(version, web, key) :
        <<version, web, key>> \in (0..MaxPubVersion) \X {1, 2} \X {1, 2}}
    \cup {[TestState(3, 1, 1) EXCEPT !.metadata = [cbor |-> "garbage"]],
          [TestState(3, 1, 1) EXCEPT !.cut = "metadata"],
          EmptyState}

PubUpdates ==
    {<<StateItem(s)>> : s \in UpdateStates}
    \cup {<<>>, <<OtherItem>>, <<OtherItem, StateItem(TestState(3, 1, 1))>>,
          <<StateItem(TestState(1, 1, 1)), StateItem(TestState(3, 1, 1))>>}

\* The states handed to validate_state: every part present or missing, sizes
\* on both sides of the limits, signatures by either key over the state's
\* message, over another version and over another content
ValidateStates ==
    {[kind |-> "bytes", cut |-> cut, metadata_size |-> msize, metadata |-> metadata,
      web_size |-> wsize, web |-> 1] :
        <<cut, msize, wsize, metadata>> \in
            {<<cut, msize, wsize, metadata>> \in
                {"none", "metadata_size", "metadata", "web_size", "web"}
                \X {96, MAX_METADATA_SIZE, MAX_METADATA_SIZE + 1}
                \X {5, MAX_WEB_SIZE, MAX_WEB_SIZE + 1}
                \X ({[cbor |-> "garbage"]} \cup
                    {WebContainerMetadata(version, Sign(key, SignedMessage(mv, ws, mw))) :
                        <<version, key, mv, ws, mw>> \in
                            {0, 1} \X {1, 2} \X {0, 1, 2}
                            \X {5, MAX_WEB_SIZE, MAX_WEB_SIZE + 1} \X {1, 2}}) :
                metadata.cbor = "garbage"
                \/ (/\ metadata.signature.message[1] \in {metadata.version, metadata.version + 1}
                    /\ metadata.signature.message[2] = wsize)}}
    \cup {EmptyState}

PubSummaries ==
    {VersionSummary(v) : v \in 0..(MaxPubVersion + 1)}
    \cup {EmptySummary, [cbor |-> "garbage"]}

InitPub ==
    /\ params \in PubParams
    /\ stored = EmptyState
    /\ pcall = NoCall
    /\ IdleCatalog /\ IdleValidate /\ IdleSync /\ IdleShard
    /\ IdleBloom /\ IdleScore

\* The host calls update_state(params, stored, data) and stores a returned state
PubUpdate(data) ==
    LET result == web_update_state(stored, data)
    IN /\ pcall' = [made |-> TRUE, op |-> "update", state |-> stored,
                    data |-> data, result |-> result]
       /\ stored' = IF result.kind = "Valid" THEN result.state ELSE stored
       /\ UNCHANGED <<scoreVars, bloomVars, params, catVars, validateVars, syncVars, shardVars>>

\* The host calls validate_state(params, state) on a state it was handed
PubValidate(state) ==
    /\ pcall = NoCall
    /\ pcall' = [made |-> TRUE, op |-> "validate", state |-> state,
                 result |-> web_validate_state(params, state)]
    /\ UNCHANGED <<scoreVars, bloomVars, params, stored, catVars, validateVars, syncVars, shardVars>>

\* The host calls summarize_state(params, stored)
PubSummarize ==
    /\ pcall' = [made |-> TRUE, op |-> "summarize", state |-> stored,
                 result |-> web_summarize_state(stored)]
    /\ UNCHANGED <<scoreVars, bloomVars, params, stored, catVars, validateVars, syncVars, shardVars>>

\* The host calls get_state_delta(params, stored, summary)
PubDelta(summary) ==
    /\ pcall' = [made |-> TRUE, op |-> "delta", state |-> stored, summary |-> summary,
                 result |-> web_get_state_delta(stored, summary)]
    /\ UNCHANGED <<scoreVars, bloomVars, params, stored, catVars, validateVars, syncVars, shardVars>>

NextPub ==
    \/ \E data \in PubUpdates : PubUpdate(data)
    \/ PubSummarize
    \/ \E summary \in PubSummaries : PubDelta(summary)

SpecPub == InitPub /\ [][NextPub]_vars

\* SpecPubValidate: validate_state on its own
NextPubValidate == \E state \in ValidateStates : PubValidate(state)

SpecPubValidate == InitPub /\ [][NextPubValidate]_vars

\* The version update_state reads from a state; 0 for the empty state
PubVersion(state) == IF state.kind = "empty" THEN 0 ELSE state.metadata.version

\* An update_state call whose first update is a state with readable metadata
UpdateWithState ==
    /\ pcall.made /\ pcall.op = "update"
    /\ pcall.data # <<>> /\ pcall.data[1].kind = "State"
    /\ ReadMetadata(pcall.data[1].state).kind = "Ok"

\* C13: update_state accepts an incoming state if and only if its version is
\* strictly greater than the current state's version, the empty state counting
\* as version 0; on acceptance it returns the incoming state unchanged, on a
\* non-greater version InvalidUpdateWithInfo; so the stored version strictly
\* increases with every accepted update.
C13_VersionMustIncrease ==
    UpdateWithState =>
        LET incoming == pcall.data[1].state
        IN IF PubVersion(incoming) > PubVersion(pcall.state)
           THEN /\ pcall.result = [kind |-> "Valid", state |-> incoming]
                /\ stored = incoming
                /\ PubVersion(stored) > PubVersion(pcall.state)
           ELSE /\ pcall.result = [kind |-> "InvalidUpdateWithInfo"]
                /\ stored = pcall.state

\* C13 witness: a stored state of version 1 was replaced by one of version 3
C13_Witness ==
    /\ UpdateWithState
    /\ PubVersion(pcall.state) = 1
    /\ PubVersion(stored) = 3

\* The incoming state is well formed but for its signature, which does not
\* verify under the key of the parameters
BadSignatureOnly(state) ==
    /\ state.kind = "bytes" /\ state.cut = "none"
    /\ state.metadata.cbor = "WebContainerMetadata"
    /\ state.metadata.version # 0
    /\ ~verify_strict(params.key,
                      SignedMessage(state.metadata.version, state.web_size, state.web),
                      state.metadata.signature)

\* C14: an update_state call that would overwrite the current state with a
\* state whose signature does not verify under the contract's key K is
\* rejected, so every state adopted through update_state is one that
\* validate_state accepts under K.
C14_BadSignatureRejected ==
    (params.len >= 32 /\ ValidKey(params.key)) =>
        /\ (UpdateWithState /\ BadSignatureOnly(pcall.data[1].state)) =>
               pcall.result.kind # "Valid"
        /\ stored # EmptyState => web_validate_state(params, stored) = "Valid"

\* What the claim requires of parameters and state for Valid
ValidPublication(parameters, state) ==
    /\ parameters.len >= 32 /\ ValidKey(parameters.key)
    /\ state.kind = "bytes" /\ state.cut = "none"
    /\ state.metadata.cbor = "WebContainerMetadata"
    /\ state.metadata_size <= 1024
    /\ state.web_size <= 100 * 1024 * 1024
    /\ state.metadata.version # 0
    /\ state.metadata.signature
           = Sign(parameters.key,
                  SignedMessage(state.metadata.version, state.web_size, state.web))

\* C15: validate_state returns Valid if and only if the parameters hold at
\* least 32 bytes forming a valid key, the state decodes as the two
\* length-prefixed frames with metadata_length <= 1024 and web_length <= 100
\* MiB, the version is not 0 and the signature verifies over the big-endian
\* version followed by the web bytes; every other input yields an error.
C15_ValidIffWellFormedAndSigned ==
    (pcall.made /\ pcall.op = "validate") =>
        /\ (pcall.result = "Valid") <=> ValidPublication(params, pcall.state)
        /\ pcall.result \in {"Valid", "Other", "Deser", "InvalidState"}

\* C15 witness: a state with metadata of 1024 bytes and a web content of 100
\* MiB was accepted under parameters of 40 bytes
C15_Witness ==
    /\ pcall.made /\ pcall.op = "validate"
    /\ pcall.result = "Valid"
    /\ params.len = 40
    /\ pcall.state.metadata_size = 1024
    /\ pcall.state.web_size = 100 * 1024 * 1024

\* C16: for a non-empty local state and a summary that encodes a version,
\* get_state_delta returns the full local state if and only if the local version
\* is strictly greater than the summary's version, and the empty payload
\* otherwise.
C16_DeltaIffNewer ==
    (/\ pcall.made /\ pcall.op = "delta"
     /\ pcall.state # EmptyState
     /\ pcall.summary.cbor = "u32") =>
        pcall.result
            = [kind |-> "Ok",
               delta |-> IF pcall.state.metadata.version > pcall.summary.value
                         THEN pcall.state ELSE EmptyState]

\* C16 witness: a state of version 3 was diffed against the summary of
\* version 3 and the empty payload came back
C16_Witness ==
    /\ pcall.made /\ pcall.op = "delta"
    /\ pcall.state # EmptyState
    /\ pcall.state.metadata.version = 3
    /\ pcall.summary = VersionSummary(3)
    /\ pcall.result.delta = EmptyState

(* ------------------------------------------------------------------------ *)
(* A host calling update_state on one shard.  The shard starts empty; every *)
(* call hands it one UpdateData list of deltas and delta batches, and the   *)
(* state returned by a successful call is stored.                           *)
(* ------------------------------------------------------------------------ *)

MaxShardCalls == 3   \* update_state calls made on the shard

\* Deltas a contributor may send: one entry each (word 0 is the empty word,
\* word 10 belongs to shard 1), two entries for two words, two entries for the
\* same word and contract key, no entry, and tokens with an empty nonce or a
\* zero difficulty
ShardCallDeltas ==
    {ShardDelta(<<ShardDeltaEntry(w, c, sn, sc)>>, 8, 1) :
        w \in {0, 9, 10}, c \in {1, 2}, sn \in {1, 2}, sc \in {5, 7}}
    \cup {ShardDelta(<<ShardDeltaEntry(9, 2, 1, 5), ShardDeltaEntry(25, 1, 2, 7)>>, 8, 1),
          ShardDelta(<<ShardDeltaEntry(9, 1, 1, 5), ShardDeltaEntry(9, 1, 2, 7)>>, 8, 1),
          ShardDelta(<<>>, 8, 1),
          ShardDelta(<<ShardDeltaEntry(9, 1, 1, 5)>>, 0, 1),
          ShardDelta(<<ShardDeltaEntry(9, 1, 1, 5)>>, 8, 0)}

\* The deltas that travel in batches
ShardBatchDeltas ==
    {ShardDelta(<<ShardDeltaEntry(9, 1, 1, 5)>>, 8, 1),
     ShardDelta(<<ShardDeltaEntry(9, 2, 2, 7)>>, 8, 1),
     ShardDelta(<<ShardDeltaEntry(9, 1, 2, 5)>>, 8, 1),
     ShardDelta(<<ShardDeltaEntry(10, 1, 1, 5)>>, 8, 1),
     ShardDelta(<<ShardDeltaEntry(9, 1, 1, 5)>>, 8, 0)}

\* The UpdateData lists of a call
ShardCallData ==
    {<<DeltaItem(d)>> : d \in ShardCallDeltas}
    \cup {<<BatchItem(<<d1, d2>>)>> : d1, d2 \in ShardBatchDeltas}
    \cup {<<DeltaItem(d1), BatchItem(<<d2>>)>> : d1, d2 \in ShardBatchDeltas}
    \cup {<<GarbageItem>>, <<>>}

InitShard ==
    /\ \E id \in ShardIds : shard = <<EmptyShard(id)>>
    /\ sbuilt = <<0>>
    /\ spc = "host"
    /\ ssummary = <<>>
    /\ spayload = <<>>
    /\ sbase = <<>>
    /\ scall = NoCall
    /\ IdleCatalog /\ IdleValidate /\ IdleSync
    /\ IdlePub /\ IdleBloom /\ IdleScore

\* update_state(parameters, shard, data); the host stores a returned state
ShardUpdate(data) ==
    /\ spc = "host"
    /\ sbuilt[1] < MaxShardCalls
    /\ LET result == shard_update_state(shard[1], data)
       IN /\ scall' = [made |-> TRUE, state |-> shard[1], data |-> data,
                       result |-> result]
          /\ shard' = <<ShardReceived(shard[1], data)>>
    /\ sbuilt' = <<sbuilt[1] + 1>>
    /\ UNCHANGED <<scoreVars, bloomVars, pubVars, spc, ssummary, spayload, sbase, catVars, validateVars, syncVars>>

NextShard == \E data \in ShardCallData : ShardUpdate(data)

SpecShard == InitShard /\ [][NextShard]_vars

\* The deltas carried by the items of an UpdateData list
ShardDeltasOf(data) ==
    UNION {IF data[i].decoded = "one" THEN {data[i].delta}
           ELSE IF data[i].decoded = "many"
                THEN {data[i].deltas[j] : j \in 1..Len(data[i].deltas)}
                ELSE {} : i \in 1..Len(data)}

\* Every term of the index hashes to shard_id and lists a contract key once
TermsBelongAndUnique(state) ==
    \A word \in DOMAIN state.index :
        /\ shard_for_word(word, SHARD_COUNT) = state.shard_id
        /\ \A i, j \in 1..Len(state.index[word]) :
              state.index[word][i].contract_key = state.index[word][j].contract_key
                  => i = j

\* C17: a successful update_state call of deltas and delta batches carried only
\* deltas whose token has a non-empty nonce and a difficulty of at least 1 and
\* whose every word is non-empty and hashes to the shard_id of the state; and
\* from a state in which every term hashes to shard_id and lists no contract
\* key twice, it returns a state of the same kind.
C17_ShardDeltaChecked ==
    (scall.made /\ scall.result.kind = "Valid") =>
        /\ \A d \in ShardDeltasOf(scall.data) :
              /\ d.antiflood_token.nonce # 0
              /\ d.antiflood_token.difficulty >= 1
              /\ \A i \in 1..Len(d.entries) :
                    /\ d.entries[i].word # 0
                    /\ shard_for_word(d.entries[i].word, SHARD_COUNT)
                           = scall.state.shard_id
        /\ (shard_validate_state(scall.state) = "Valid"
                => /\ TermsBelongAndUnique(scall.result.state)
                   /\ shard_validate_state(scall.result.state) = "Valid")

\* A batch of two deltas for the same word was accepted by a shard that already
\* listed a contract key of the batch, and the word now lists two contract keys
C17_Witness ==
    /\ scall.made
    /\ scall.result.kind = "Valid"
    /\ Len(scall.data) = 1
    /\ scall.data[1].decoded = "many"
    /\ 9 \in DOMAIN scall.state.index
    /\ Len(scall.state.index[9]) = 1
    /\ Len(scall.result.state.index[9]) = 2

\* C18: two valid deltas applied to a shard state in either order, each in its
\* own update_state call, leave the same state.  Checked at every call that
\* applied one delta d2: applying any other valid delta d1 after it gives what
\* applying d1 before it would have given.
C18_ShardDeltasCommute ==
    (/\ scall.made
     /\ scall.result.kind = "Valid"
     /\ Len(scall.data) = 1
     /\ scall.data[1].decoded = "one") =>
        \A d1 \in ShardCallDeltas :
            LET first == shard_update_state(scall.state, <<DeltaItem(d1)>>)
            IN first.kind = "Valid" =>
                  shard_update_state(first.state, scall.data)
                      = shard_update_state(scall.result.state, <<DeltaItem(d1)>>)

\* The entry of a call that applied one delta of one entry
AppliedEntry == scall.data[1].delta.entries[1]

\* Entries sorted by contract_key
SortedByContractKey(entries) ==
    \A i, j \in 1..Len(entries) :
        i < j => entries[i].contract_key <= entries[j].contract_key

\* The entries of a word in an index, none for a word the index does not hold
EntriesOf(index, word) == IF word \in DOMAIN index THEN index[word] ELSE <<>>

\* The entries that list a contract key
Listing(entries, contract_key) ==
    {i \in 1..Len(entries) : entries[i].contract_key = contract_key}

\* C19: after update_state applied a delta of one entry (word, contract_key,
\* snippet, score), the word lists the contract key exactly once; a key the
\* word did not list gets the delta's score and snippet; a key listed with
\* score e gets max(e, score), and the delta's snippet exactly when score > e,
\* its own snippet otherwise; the entries of the word are sorted by
\* contract_key, and every other entry and word is left as it was.
C19_MaxWins ==
    (/\ scall.made
     /\ scall.result.kind = "Valid"
     /\ Len(scall.data) = 1
     /\ scall.data[1].decoded = "one"
     /\ Len(scall.data[1].delta.entries) = 1) =>
        LET e == AppliedEntry
            before == EntriesOf(scall.state.index, e.word)
            after == EntriesOf(scall.result.state.index, e.word)
            old == Listing(before, e.contract_key)
            new == Listing(after, e.contract_key)
        IN /\ Cardinality(new) = 1
           /\ SortedByContractKey(after)
           /\ \A k \in new :
                 IF old = {}
                 THEN /\ after[k].tf_idf_score = e.tf_idf_score
                      /\ after[k].snippet = e.snippet
                 ELSE \A i \in old :
                         /\ after[k].tf_idf_score
                                = IF e.tf_idf_score > before[i].tf_idf_score
                                  THEN e.tf_idf_score ELSE before[i].tf_idf_score
                         /\ after[k].snippet
                                = IF e.tf_idf_score > before[i].tf_idf_score
                                  THEN e.snippet ELSE before[i].snippet
           /\ {after[k] : k \in (1..Len(after)) \ new}
                  = {before[i] : i \in (1..Len(before)) \ old}
           /\ \A word \in DOMAIN scall.state.index :
                 word # e.word =>
                    EntriesOf(scall.result.state.index, word) = scall.state.index[word]
           /\ DOMAIN scall.result.state.index = DOMAIN scall.state.index \cup {e.word}

\* A delta with the score an entry already has and another snippet was applied:
\* the entry kept its snippet, beside an entry of another contract key
C19_Witness ==
    /\ scall.made
    /\ scall.result.kind = "Valid"
    /\ Len(scall.data) = 1
    /\ scall.data[1].decoded = "one"
    /\ Len(scall.data[1].delta.entries) = 1
    /\ AppliedEntry.word \in DOMAIN scall.state.index
    /\ Len(scall.state.index[AppliedEntry.word]) = 2
    /\ \E i \in Listing(scall.state.index[AppliedEntry.word], AppliedEntry.contract_key) :
          /\ scall.state.index[AppliedEntry.word][i].tf_idf_score = AppliedEntry.tf_idf_score
          /\ scall.state.index[AppliedEntry.word][i].snippet # AppliedEntry.snippet

(* ------------------------------------------------------------------------ *)
(* Full-state exchange between two catalog replicas.  Both replicas are     *)
(* built from the empty catalog by valid deltas under the same threshold;   *)
(* then each is handed the other's whole state as one UpdateData::State.    *)
(* ------------------------------------------------------------------------ *)

\* Deltas the replicas are built from: one contract key attested under two
\* variants by two contributors, the same contributor with two tokens, and a
\* second contract key
MergeDeltas ==
    {MakeDelta(1, 1, 1, 1), MakeDelta(1, 1, 1, 2), MakeDelta(1, 1, 2, 1),
     MakeDelta(1, 2, 2, 1), MakeDelta(2, 1, 1, 1)}

\* update_state(parameters, A, [State(B)]) on replica 1 and
\* update_state(parameters, B, [State(A)]) on replica 2
FullStateMerge ==
    /\ pc = "build"
    /\ node' = [r \in Replicas |->
                   update_state(threshold, node[r],
                                <<FullStateItem(node[Other(r)])>>).state]
    /\ base' = node
    /\ pc' = "merged"
    /\ UNCHANGED <<scoreVars, bloomVars, pubVars, threshold, built, summaries, payloads, rounds,
                   cat, call, hist, validateVars, shardVars>>

NextMerge ==
    \/ \E r \in Replicas, d \in MergeDeltas : Build(r, d)
    \/ FullStateMerge

SpecMerge == InitSync /\ [][NextMerge]_vars

\* C20: for catalog states A and B built from the empty catalog by valid deltas
\* under the same threshold, update_state(A, [State(B)]) and
\* update_state(B, [State(A)]) return the same state, attestations included.
C20_FullStateMergeCommutes ==
    pc = "merged" => node[1] = node[2]

(* ------------------------------------------------------------------------ *)
(* The catalog contract driven by a host that also relays full states: the  *)
(* update lists hold deltas and UpdateData::State items.  A peer's state is *)
(* whatever decodes as a CatalogState: states other replicas built, and     *)
(* states no replica would build.                                           *)
(* ------------------------------------------------------------------------ *)

MaxPeerCalls == 2   \* update_state calls made in a behaviour of SpecPeer

\* A variant and an entry as a peer's bytes spell them out; the texts are those
\* of MakeDelta (description 1, mini_snippet 1)
PeerVariant(title, attestations, total_weight) ==
    [title |-> title, description |-> 1, mini_snippet |-> 1,
     attestations |-> attestations, total_weight |-> total_weight]

PeerEntry(key, hash_variants, status) ==
    [contract_key |-> key, hash_variants |-> hash_variants, size_bytes |-> 3,
     version |-> Some(3), status |-> status, first_seen |-> 1, last_seen |-> 3]

PeerScore(pk, trust_score, total_contributions) ==
    [pubkey |-> pk, trust_score |-> trust_score,
     total_contributions |-> total_contributions]

\* States a replica with the same threshold built from the empty catalog
BuiltPeerStates(thr) ==
    {update_state(thr, EmptyCatalog, <<BatchItem(ds)>>).state :
        ds \in {<<MakeDelta(1, 1, 1, 2)>>,
                <<MakeDelta(1, 1, 2, 1), MakeDelta(1, 1, 3, 1)>>,
                <<MakeDelta(1, 2, 2, 1), MakeDelta(2, 1, 3, 1)>>}}

\* A state validate_state accepts whose contributors table records trust
\* scores near 2^31 for two of the three attestors of its one variant
HeavyTrust == 2147483646
HeavyPeerState ==
    [entries |-> MapPut(<<>>, 3,
          PeerEntry(3, MapPut(<<>>, metadata_hash(1, 1, 1),
                        PeerVariant(1, <<Attestation(7, 1, 1, 1, 1),
                                         Attestation(8, 1, 1, 1, 1),
                                         Attestation(9, 1, 1, 1, 1)>>, 3)), "Confirmed")),
      contributors |-> MapPut(MapPut(MapPut(<<>>, 7, PeerScore(7, HeavyTrust, HeavyTrust)),
                                     8, PeerScore(8, HeavyTrust, HeavyTrust)),
                              9, PeerScore(9, 1, 1))]

\* Decodable states no replica builds: a variant stored under a key that is not
\* the hash of its text; an entry with the empty contract_key; a variant with
\* two attestations of one pubkey, unsorted, with weights and status that do
\* not follow; a contributors table alone.  The first entry is marked Expired
CraftedPeerStates ==
    {[entries |-> MapPut(<<>>, 1,
          PeerEntry(1, MapPut(<<>>, metadata_hash(2, 1, 1),
                        PeerVariant(1, <<Attestation(3, 1, 1, 1, 1)>>, 1)), "Expired")),
      contributors |-> <<>>],
     [entries |-> MapPut(<<>>, 0,
          PeerEntry(0, MapPut(<<>>, metadata_hash(1, 1, 1),
                        PeerVariant(1, <<Attestation(3, 1, 1, 1, 1)>>, 1)), "Pending")),
      contributors |-> <<>>],
     [entries |-> MapPut(<<>>, 1,
          PeerEntry(1, MapPut(<<>>, metadata_hash(1, 1, 1),
                        PeerVariant(1, <<Attestation(3, 1, 1, 1, 4),
                                         Attestation(2, 1, 1, 1, 1),
                                         Attestation(3, 2, 1, 2, 1)>>, 9)), "Disputed")),
      contributors |-> <<>>],
     [entries |-> <<>>,
      contributors |-> MapPut(<<>>, 1, PeerScore(1, 3, 5))],
     HeavyPeerState}

PeerStates(thr) == BuiltPeerStates(thr) \cup CraftedPeerStates

PeerDeltas ==
    {MakeDelta(1, 1, 1, 1), MakeDelta(1, 2, 2, 1), MakeDelta(2, 1, 1, 1),
     [MakeDelta(2, 2, 2, 2) EXCEPT !.attestation.contributor_pubkey = 0]}

\* The update lists of the calls of SpecPeer
PeerCallData(thr) ==
    {<<DeltaItem(d)>> : d \in PeerDeltas}
    \cup {<<FullStateItem(p)>> : p \in PeerStates(thr)}
    \cup {<<DeltaItem(MakeDelta(1, 2, 2, 1)), FullStateItem(p)>> :
              p \in {[entries |-> <<>>,
                      contributors |-> MapPut(<<>>, 1, PeerScore(1, 3, 5))],
                     update_state(thr, EmptyCatalog,
                                  <<DeltaItem(MakeDelta(1, 1, 1, 2))>>).state}}
    \cup {<<BatchItem(<<MakeDelta(1, 1, 1, 1), MakeDelta(1, 1, 2, 1)>>)>>,
          <<GarbageStateItem>>, <<>>}

PeerCall ==
    \E data \in PeerCallData(threshold), overflow_checks \in BOOLEAN :
        Len(hist) < MaxPeerCalls /\ UpdateBuild(overflow_checks, data)

\* The host hands the contract its own state as a peer's full state
MergeSelf ==
    \E overflow_checks \in BOOLEAN :
        /\ Len(hist) <= MaxPeerCalls
        /\ call.made
        /\ UpdateBuild(overflow_checks, <<FullStateItem(cat)>>)

NextPeer == PeerCall \/ MergeSelf

SpecPeer == InitCatalog /\ [][NextPeer]_vars

\* The call merged the state it was made on into itself
SelfMerged == call.made /\ call.data = <<FullStateItem(call.state)>>

ProbeAttestations ==
    {<<Attestation(1, 1, 1, 1, 1)>>,
     <<Attestation(1, 1, 1, 1, 1), Attestation(2, 1, 1, 1, 2)>>,
     <<Attestation(1, 1, 1, 1, 1), Attestation(1, 2, 1, 2, 2)>>,
     <<Attestation(1, 1, 1, 1, 2147483647), Attestation(2, 1, 1, 1, 2147483647),
       Attestation(3, 1, 1, 1, 2)>>}

\* Entries with the contract_key empty or not, the variant under the hash of
\* its text or under another key, and a total_weight of 0, 1, 3 or 4
ProbeEntries ==
    {PeerEntry(key, MapPut(<<>>, hash, PeerVariant(1, atts, total)), "Pending") :
        key \in {0, 1},
        hash \in {metadata_hash(1, 1, 1), metadata_hash(2, 1, 1)},
        atts \in ProbeAttestations,
        total \in {0, 1, 3, 4}}

\* Second entries: one that passes, one whose sum overflows, one without variant
ProbeSecondEntries ==
    {PeerEntry(2, MapPut(<<>>, metadata_hash(1, 1, 1),
                         PeerVariant(1, <<Attestation(1, 1, 1, 1, 1)>>, 1)), "Confirmed")}
    \cup {PeerEntry(2, MapPut(<<>>, metadata_hash(1, 1, 1),
                         PeerVariant(1, atts, 0)), "Pending") :
             atts \in {a \in ProbeAttestations : Len(a) = 3}}
    \cup {PeerEntry(2, <<>>, "Pending")}

\* The states handed to validate_state
ProbeStates ==
    {EmptyCatalog}
    \cup {[entries |-> MapPut(<<>>, 1, e), contributors |-> <<>>] : e \in ProbeEntries}
    \cup {[entries |-> MapPut(MapPut(<<>>, 1, e), 2, e2), contributors |-> <<>>] :
             e \in ProbeEntries, e2 \in ProbeSecondEntries}

InitValidateState ==
    /\ threshold = 0
    /\ cat \in ProbeStates
    /\ call = NoCall
    /\ hist = <<>>
    /\ IdleValidate /\ IdleSync /\ IdleShard
    /\ IdlePub /\ IdleBloom /\ IdleScore

\* validate_state(parameters, cat, related) in one of the two builds
ValidateState(overflow_checks) ==
    /\ verdict = "none"
    /\ verdict' = validate_state_build(overflow_checks, cat)
    /\ UNCHANGED <<scoreVars, bloomVars, pubVars, vdelta, catVars, syncVars, shardVars>>

NextValidateState == \E overflow_checks \in BOOLEAN : ValidateState(overflow_checks)

SpecValidateState == InitValidateState /\ [][NextValidateState]_vars

\* total_weight equals the sum of the attestation weights, as numbers
WeightIsSum(variant) ==
    /\ ~WeightSumOverflows(variant.attestations)
    /\ U32Halves(variant.total_weight) = WrappedWeightSum(variant.attestations)

\* What the claim requires of a state
WellFormedCatalog(state) ==
    \A k \in DOMAIN state.entries :
        /\ state.entries[k].contract_key # 0
        /\ \A hash \in DOMAIN state.entries[k].hash_variants :
              LET variant == state.entries[k].hash_variants[hash]
              IN /\ hash = metadata_hash(variant.title, variant.description,
                                         variant.mini_snippet)
                 /\ \A i, j \in 1..Len(variant.attestations) :
                       variant.attestations[i].contributor_pubkey
                           = variant.attestations[j].contributor_pubkey => i = j
                 /\ WeightIsSum(variant)

\* C22: for every decodable CatalogState validate_state returns Valid if every
\* entry has a non-empty contract_key, every variant is stored under the hash of
\* its text, no variant holds two attestations of one pubkey and every
\* total_weight is the sum of the attestation weights; otherwise it returns
\* InvalidState.
C22_ValidIffWellFormed ==
    verdict # "none" =>
        verdict = IF WellFormedCatalog(cat) THEN "Valid" ELSE "InvalidState"

(* ------------------------------------------------------------------------ *)
(* A BloomFilter on its own: created with some num_bits > 0, filled by      *)
(* insert calls, and sent through to_bytes and from_bytes.                  *)
(* ------------------------------------------------------------------------ *)

MaxInserts == 3   \* insert calls made on the filter

\* Filter sizes: below one byte, one byte, between bytes, and several bytes
BloomSizes == {1, 5, 8, 12, 64}

\* Items: byte strings, given as the sequence of their parts
BloomItems == {<<1>>, <<2>>, <<1, 2>>, <<2, 1>>, <<7, 7, 7>>}

InitBloom ==
    /\ \E num_bits \in BloomSizes : bf = BloomNew(num_bits)
    /\ inserted = {}
    /\ bround = NoCall
    /\ IdleCatalog /\ IdleValidate /\ IdleSync /\ IdleShard
    /\ IdlePub /\ IdleScore

\* bf.insert(item)
Insert(item) ==
    /\ Cardinality(inserted) < MaxInserts
    /\ item \notin inserted
    /\ bf' = BloomInsert(bf, item)
    /\ inserted' = inserted \cup {item}
    /\ UNCHANGED <<scoreVars, bround, pubVars, catVars, validateVars, syncVars, shardVars>>

\* BloomFilter::from_bytes(&bf.to_bytes())
RoundTrip ==
    /\ bround' = [made |-> TRUE, filter |-> bf, items |-> inserted,
                  decoded |-> from_bytes(to_bytes(bf))]
    /\ UNCHANGED <<scoreVars, bf, inserted, pubVars, catVars, validateVars, syncVars, shardVars>>

NextBloom == (\E item \in BloomItems : Insert(item)) \/ RoundTrip

SpecBloom == InitBloom /\ [][NextBloom]_vars

\* C23: a filter created with num_bits > 0 contains every item that was
\* inserted, after any sequence of inserts; from_bytes(to_bytes(filter)) is the
\* filter itself, and contains every inserted item as well.
C23_NoFalseNegatives ==
    /\ \A item \in inserted : BloomContains(bf, item)
    /\ bround.made =>
          /\ bround.decoded = Some(bround.filter)
          /\ \A item \in bround.items : BloomContains(bround.decoded[1], item)

\* A filter of 12 bits in 2 bytes holding three items, with bits set in both
\* bytes and the highest bit of a byte among them, went through the round trip
C23_Witness ==
    /\ bround.made
    /\ Cardinality(bround.items) = 3
    /\ bround.filter.num_bits = 12
    /\ \E pos \in bround.filter.bits : pos \div 8 = 1
    /\ 7 \in bround.filter.bits
    /\ bround.decoded # None

(* ------------------------------------------------------------------------ *)
(* get_state_delta of both contracts on a summary a peer supplies: one      *)
(* catalog replica and one shard replica are built by deltas and then asked *)
(* for the delta against summary bytes of any kind.                         *)
(* ------------------------------------------------------------------------ *)

\* Bytes that are no encoding of a BloomFilter
GarbageSummary == [cbor |-> "garbage"]

\* A summary with every bit of the 8192 set, and a fresh one
FullSummary == BloomBytes(1024, [byte_idx \in 0..1023 |-> 255], SummaryBits)
FreshSummary == to_bytes(BloomNew(SummaryBits))

\* Summaries of peers: of states a peer built, full, fresh, undecodable,
\* filters with num_bits = 0 (with and without bits), and filters whose bits
\* array is shorter than num_bits
PeerSummaries(thr) ==
    {summarize_state(p) : p \in BuiltPeerStates(thr)}
    \cup {summarize_state(update_state(thr, EmptyCatalog,
                                       <<DeltaItem(MakeDelta(2, 1, 1, 1))>>).state)}
    \cup {shard_summarize_state(
              apply_shard_delta(EmptyShard(0),
                                ShardDelta(<<ShardDeltaEntry(9, 1, 1, 5)>>, 8, 1)))}
    \cup {FullSummary, FreshSummary, GarbageSummary,
          BloomBytes(0, <<>>, 0),
          BloomBytes(1024, <<>>, 0),
          BloomBytes(1, <<>>, SummaryBits),
          BloomBytes(1, [byte_idx \in {0} |-> 255], SummaryBits),
          BloomBytes(0, <<>>, SummaryBits)}

\* get_state_delta(parameters, state, summary) of both contracts
AskDelta(summary) ==
    /\ pc = "build"
    /\ summaries' = <<summary>>
    /\ ssummary' = <<summary>>
    /\ payloads' = <<get_state_delta(node[1], summary)>>
    /\ spayload' = <<shard_get_state_delta(shard[1], summary)>>
    /\ pc' = "asked"
    /\ UNCHANGED <<scoreVars, bloomVars, pubVars, scall, threshold, node, built, base, rounds,
                   shard, sbuilt, spc, sbase,
                   cat, call, hist, validateVars>>

NextAsk ==
    \/ \E d \in SyncDeltas : Build(1, d)
    \/ \E d \in ShardDeltas : pc = "build" /\ built[1] = 0 /\ sbuilt[1] = 0 /\ ShardBuild(1, d)
    \/ \E summary \in PeerSummaries(threshold) : AskDelta(summary)

SpecAsk == InitSelfDiff /\ [][NextAsk]_vars

\* C24: for every local state and every summary byte string, get_state_delta of
\* the catalog and of the shard returns a delta payload or InvalidState, and
\* does not panic.
C24_DeltaIsTotal ==
    pc = "asked" =>
        /\ payloads[1].kind \in {"Ok", "InvalidState"}
        /\ spayload[1].kind \in {"Ok", "InvalidState"}

\* The (contract_key, variant hash, attestation) of every attestation of the
\* entries whose fingerprint the filter reports absent
AbsentAttestations(state, filter) ==
    UNION {UNION {{<<state.entries[k].contract_key, h,
                     state.entries[k].hash_variants[h].attestations[i]>> :
                       i \in 1..Len(state.entries[k].hash_variants[h].attestations)} :
                   h \in DOMAIN state.entries[k].hash_variants} :
           k \in {k \in DOMAIN state.entries :
                     ~BloomContains(filter, bloom_key(state.entries[k]))}}

\* The deltas a payload carries
PayloadDeltas(payload) == IF payload = EmptyPayload THEN <<>> ELSE payload.value

\* C30: get_state_delta returns exactly one CatalogDelta per attestation of
\* each variant of each local entry whose fingerprint the summary reports
\* absent, and nothing for the other entries; a summary with all bits set
\* yields the empty payload, a fresh summary deltas for every attestation of
\* every entry.
C30_DiffContent ==
    (pc = "asked" /\ payloads[1].kind = "Ok") =>
        LET filter == from_bytes(summaries[1])[1]
            deltas == PayloadDeltas(payloads[1].delta)
            sent == {<<deltas[i].contract_key, deltas[i].metadata_hash,
                       deltas[i].attestation>> : i \in 1..Len(deltas)}
        IN /\ sent = AbsentAttestations(node[1], filter)
           /\ Len(deltas) = Cardinality(sent)
           /\ summaries[1] = FullSummary => payloads[1].delta = EmptyPayload
           /\ summaries[1] = FreshSummary =>
                 Len(deltas) = Cardinality(AbsentAttestations(node[1], BloomNew(1)))

\* Against the summary of a peer that holds one of the two local entries, the
\* one attestation of the other entry was sent and nothing else
C30_Witness ==
    /\ pc = "asked"
    /\ payloads[1].kind = "Ok"
    /\ summaries[1] \notin {FullSummary, FreshSummary}
    /\ DOMAIN node[1].entries = {1, 2}
    /\ Len(PayloadDeltas(payloads[1].delta)) = 1
    /\ PayloadDeltas(payloads[1].delta)[1].contract_key = 1

\* C25: from a state validate_state accepts, every successful update_state,
\* also one whose items are full-state merges of any decodable peer state,
\* returns a state validate_state accepts.
C25_MergeKeepsValid ==
    (call.made /\ call.result.kind = "Valid" /\ validate_state(call.state) = "Valid")
        => validate_state(call.result.state) = "Valid"

\* The number of entries of a state that are Confirmed or Disputed and whose
\* variant with the most attestations (the one max_by_key picks) holds an
\* attestation of pk
QualifyingEntries(state, pk) ==
    Cardinality({k \in DOMAIN state.entries :
        /\ state.entries[k].status \in {"Confirmed", "Disputed"}
        /\ DOMAIN state.entries[k].hash_variants # {}
        /\ pk \in PubkeysOf(state.entries[k].hash_variants[
                     MaxByKey(AttCount(state.entries[k].hash_variants))].attestations)})

\* total_contributions of pk, 0 without a record
ContributionsOf(contributors, pk) ==
    IF pk \in DOMAIN contributors THEN contributors[pk].total_contributions ELSE 0

\* The pubkeys a state knows: attestors and recorded contributors
KnownPubkeys(state) == Attestors(state) \cup DOMAIN state.contributors

\* The call returned a state
Returned == call.made /\ call.result.kind = "Valid"

\* C26: in the state a successful update_state returns, the trust_score of each
\* contributor equals the number of entries that are Confirmed or Disputed and
\* whose winning variant holds an attestation of that contributor.
C26_TrustFromEntries ==
    Returned =>
        \A pk \in KnownPubkeys(call.result.state) :
            TrustOf(call.result.state.contributors, pk)
                = QualifyingEntries(call.result.state, pk)

\* The state of the call after its deltas and merges, before finalization
BeforeFinalize == ApplyUpdates(call.state, call.data).state

\* C27: after a successful update_state, trust_score and total_contributions of
\* each contributor are the maximum of their value before finalization and the
\* number of qualifying entries; neither is below its value before the call;
\* every attestor of the only variant of a Confirmed entry has trust_score >= 1.
C27_TrustMaxWins ==
    Returned =>
        LET new == call.result.state
        IN /\ \A pk \in KnownPubkeys(new) :
                 /\ TrustOf(new.contributors, pk)
                       = Max(TrustOf(BeforeFinalize.contributors, pk),
                             QualifyingEntries(new, pk))
                 /\ ContributionsOf(new.contributors, pk)
                       = Max(ContributionsOf(BeforeFinalize.contributors, pk),
                             QualifyingEntries(new, pk))
           /\ \A pk \in DOMAIN call.state.contributors :
                 /\ pk \in DOMAIN new.contributors
                 /\ new.contributors[pk].trust_score
                       >= call.state.contributors[pk].trust_score
                 /\ new.contributors[pk].total_contributions
                       >= call.state.contributors[pk].total_contributions
           /\ \A k \in DOMAIN new.entries :
                 (new.entries[k].status = "Confirmed"
                  /\ Cardinality(DOMAIN new.entries[k].hash_variants) = 1)
                 => \A h \in DOMAIN new.entries[k].hash_variants :
                       \A pk \in PubkeysOf(new.entries[k].hash_variants[h].attestations) :
                           TrustOf(new.contributors, pk) >= 1

\* One contributor kept a trust above the number of its qualifying entries and
\* another was raised to that number by the call
C27_Witness ==
    /\ Returned
    /\ \E pk \in KnownPubkeys(call.result.state) :
          /\ TrustOf(BeforeFinalize.contributors, pk)
                > QualifyingEntries(call.result.state, pk)
          /\ QualifyingEntries(call.result.state, pk) > 0
    /\ \E pk \in KnownPubkeys(call.result.state) :
          TrustOf(BeforeFinalize.contributors, pk)
              < QualifyingEntries(call.result.state, pk)

\* Option<u64> order of the version: None is below every Some
VersionLeq(a, b) == a = None \/ (b # None /\ a[1] <= b[1])

\* C29: across every successful update_state (deltas, batches, full-state
\* merges) contract keys, variant hashes and attesting pubkeys persist;
\* size_bytes, version and last_seen do not decrease, first_seen does not
\* increase.
C29_Inflationary ==
    Returned =>
        LET old == call.state.entries
            new == call.result.state.entries
        IN \A k \in DOMAIN old :
              /\ k \in DOMAIN new
              /\ new[k].contract_key = old[k].contract_key
              /\ new[k].size_bytes >= old[k].size_bytes
              /\ VersionLeq(old[k].version, new[k].version)
              /\ new[k].last_seen >= old[k].last_seen
              /\ new[k].first_seen <= old[k].first_seen
              /\ \A h \in DOMAIN old[k].hash_variants :
                    /\ h \in DOMAIN new[k].hash_variants
                    /\ PubkeysOf(old[k].hash_variants[h].attestations)
                          \subseteq PubkeysOf(new[k].hash_variants[h].attestations)

\* A peer state with a smaller size and a larger first_seen was merged into an
\* entry, which kept its own values, and the state gained an attestor
C29_Witness ==
    /\ Returned
    /\ \E i \in 1..Len(call.data) :
          /\ call.data[i].kind = "State"
          /\ call.data[i].decoded = "state"
          /\ \E k \in (DOMAIN call.state.entries) \cap (DOMAIN call.data[i].state.entries) :
                /\ call.data[i].state.entries[k].size_bytes < call.state.entries[k].size_bytes
                /\ call.data[i].state.entries[k].first_seen > call.state.entries[k].first_seen
                /\ Attestors(call.result.state) # Attestors(call.state)

\* C28: in the state a successful update_state returns, the weight of every
\* attestation is 1 plus the trust_score the contributors table of that state
\* records for its pubkey (1 without a record), and the total_weight of every
\* variant is the sum of the weights of its attestations.
C28_WeightsFollowTrust ==
    Returned =>
        \A k \in DOMAIN call.result.state.entries :
            \A h \in DOMAIN call.result.state.entries[k].hash_variants :
                LET variant == call.result.state.entries[k].hash_variants[h]
                IN /\ \A i \in 1..Len(variant.attestations) :
                         variant.attestations[i].weight
                             = 1 + TrustOf(call.result.state.contributors,
                                           variant.attestations[i].contributor_pubkey)
                   /\ U32Halves(variant.total_weight)
                         = WeightSumHalves(variant.attestations)

(* ------------------------------------------------------------------------ *)
(* One direction of a catalog anti-entropy round, with the sender unchanged *)
(* ------------------------------------------------------------------------ *)

\* The contract keys of the entries of a that get_state_delta(a, summarize(b))
\* sends
SentKeys(a, b) ==
    {k \in DOMAIN a.entries :
        IsMissing(from_bytes(summarize_state(b))[1], a.entries[k])}

\* The contract keys the deltas of a payload name
PayloadKeys(payload) ==
    {PayloadDeltas(payload)[i].contract_key : i \in 1..Len(PayloadDeltas(payload))}

\* C31: once replica B has applied get_state_delta(A, summarize(B)), every
\* entry of A that was sent has its fingerprint in the next summary of B, and
\* get_state_delta(A, summarize(B')) holds no delta of that entry (A unchanged).
C31_SentEntriesSettle ==
    (pc = "idle" /\ base # <<>>) =>
        \A r \in Replicas :
            \A k \in SentKeys(base[Other(r)], base[r]) :
                /\ BloomContains(from_bytes(summarize_state(node[r]))[1],
                                 bloom_key(base[Other(r)].entries[k]))
                /\ k \notin PayloadKeys(get_state_delta(base[Other(r)],
                                                        summarize_state(node[r])).delta)

(* ------------------------------------------------------------------------ *)
(* Two runs of update_state from states that differ in trust only           *)
(* ------------------------------------------------------------------------ *)

\* The trust score the second run records for the contributors it favours
FavouredTrust == 4

\* A state with the entries, variants and attesting pubkeys of state, in which
\* the contributors in favoured have trust FavouredTrust and the others none,
\* with the weights that follow
Retrusted(state, favoured) ==
    LET trust(pk) == IF pk \in favoured THEN FavouredTrust ELSE 0
        reweigh(variant) ==
            LET atts == [i \in 1..Len(variant.attestations) |->
                            [variant.attestations[i] EXCEPT !.weight =
                                1 + trust(variant.attestations[i].contributor_pubkey)]]
            IN [variant EXCEPT !.attestations = atts, !.total_weight = SumWeights(atts)]
    IN [entries |->
           [k \in DOMAIN state.entries |->
               [state.entries[k] EXCEPT !.hash_variants =
                   [h \in DOMAIN state.entries[k].hash_variants |->
                       reweigh(state.entries[k].hash_variants[h])]]],
        contributors |->
           [pk \in Attestors(state) \cap favoured |->
               [pubkey |-> pk, trust_score |-> FavouredTrust,
                total_contributions |-> FavouredTrust]]]

\* The sets of contributors the second run favours: none, those of the first
\* variant, those of the other variants
FavouredSets(state) ==
    {{}, {pk \in Attestors(state) : pk < 20}, {pk \in Attestors(state) : pk >= 20}}

\* C32: two runs of update_state with the same threshold and update list, from
\* states with the same entries, variants and attesting pubkeys that differ in
\* the contributors table and the attestation weights, give every entry the
\* same status.
C32_StatusIgnoresTrust ==
    Returned =>
        \A favoured \in FavouredSets(call.state) :
            LET other == update_state(threshold, Retrusted(call.state, favoured),
                                      call.data)
            IN /\ other.kind = "Valid"
               /\ DOMAIN other.state.entries = DOMAIN call.result.state.entries
               /\ \A k \in DOMAIN other.state.entries :
                     other.state.entries[k].status = call.result.state.entries[k].status

\* The two runs started from states whose weights rank the variants in
\* opposite orders, and the entry came out Disputed in the first
C32_Witness ==
    /\ Returned
    /\ 1 \in DOMAIN call.state.entries
    /\ call.result.state.entries[1].status = "Disputed"
    /\ \E favoured \in FavouredSets(call.state) :
          MaxByKey(TotalWeight(Retrusted(call.state, favoured).entries[1].hash_variants))
              # MaxByKey(TotalWeight(call.state.entries[1].hash_variants))

\* Attestation sequences of catalog variants

\* The pubkeys of the sequence are strictly increasing
StrictlyIncreasingPubkeys(atts) ==
    \A i \in 1..(Len(atts) - 1) :
        atts[i].contributor_pubkey < atts[i + 1].contributor_pubkey

\* The call merged a full state one of whose variants lists a pubkey twice
MergedDuplicates ==
    \E i \in 1..Len(call.data) :
        /\ call.data[i].kind = "State"
        /\ call.data[i].decoded = "state"
        /\ \E k \in DOMAIN call.data[i].state.entries :
               \E h \in DOMAIN call.data[i].state.entries[k].hash_variants :
                   ~StrictlyIncreasingPubkeys(
                        call.data[i].state.entries[k].hash_variants[h].attestations)

\* C33: in every state reached from the empty catalog by successful
\* update_state calls (deltas, batches, merges of any decodable full state),
\* the attestations of every variant are strictly increasing by
\* contributor_pubkey: sorted, and no pubkey twice
C33_AttestationsSorted ==
    \A k \in DOMAIN cat.entries : \A h \in DOMAIN cat.entries[k].hash_variants :
        StrictlyIncreasingPubkeys(cat.entries[k].hash_variants[h].attestations)

\* A successful call merged a variant with a repeated pubkey, and the catalog
\* holds a variant with two attestations
C33_Witness ==
    /\ Returned
    /\ MergedDuplicates
    /\ cat = call.result.state
    /\ \E k \in DOMAIN cat.entries : \E h \in DOMAIN cat.entries[k].hash_variants :
           Len(cat.entries[k].hash_variants[h].attestations) >= 2

\* ---------------------------------------------------------------------------
\* Scoring (search-common/src/scoring.rs)

\* Bounds of the scoring inputs
MaxTermCount == 3
MaxDocs == 5
MaxMagnitude == 3

\* 64 - x.leading_zeros(): the number of bits of x
RECURSIVE BitLength(_)
BitLength(x) == IF x = 0 THEN 0 ELSE 1 + BitLength(x \div 2)

\* a.saturating_sub(b)
SaturatingSub(a, b) == IF a >= b THEN a - b ELSE 0

\* integer_log2_scaled(x)
integer_log2_scaled(x) ==
    IF x <= 10000 THEN 0
    ELSE SaturatingSub(SaturatingSub(BitLength(x), 1), 13) * 10000

\* (a * b) / 10000 in u64, evaluated without forming the product a * b
MulDiv10000(a, b) == a * (b \div 10000) + (a * (b % 10000)) \div 10000

\* integer_tf_idf(term_count, total_terms, total_docs, docs_with_term); within
\* the bounds the result is below 2^31 and the cast to u32 changes nothing
integer_tf_idf(term_count, total_terms, total_docs, docs_with_term) ==
    IF total_terms = 0 \/ docs_with_term = 0 THEN 0
    ELSE LET tf == (term_count * 10000) \div total_terms
             ratio == (total_docs * 10000) \div docs_with_term
             idf == integer_log2_scaled(ratio) + 10000
         IN MulDiv10000(tf, idf)

\* log_scale(x)
log_scale(x) == IF x = 0 THEN 0 ELSE BitLength(x) * 500

\* Mutant of StatusBonus: a Disputed entry gets no penalty
StatusBonus_lenient(status) == IF status = "Confirmed" THEN 3000 ELSE 0

\* The match on status in rank_score
StatusBonus(status) ==
    CASE status = "Confirmed" -> 3000
      [] status = "Pending" -> 0
      [] status = "Disputed" -> 0 - 2000
      [] status = "Expired" -> 0 - 1000

\* The base of rank_score: the blend of the three log-scaled magnitudes
RankBase(weighted_attestations, version, subscribers) ==
    (log_scale(weighted_attestations) * 4000 + log_scale(version) * 3000
        + log_scale(subscribers) * 3000) \div 10000

\* rank_score(weighted_attestations, version, subscribers, status)
rank_score(weighted_attestations, version, subscribers, status) ==
    Max(RankBase(weighted_attestations, version, subscribers) + StatusBonus(status), 0)

ScoreStatuses == {"Pending", "Confirmed", "Disputed", "Expired"}

TermCounts == 0..MaxTermCount
DocCounts == 0..MaxDocs
Magnitudes == (0..MaxMagnitude) \cup {100, 2147483647}

\* The inputs of one scoring call are chosen, the function not yet applied
InitScore ==
    /\ scored \in
          {[made |-> FALSE, fn |-> "integer_tf_idf", args |-> <<tc, tt, td, dw>>] :
               tc \in TermCounts, tt \in TermCounts, td \in DocCounts, dw \in DocCounts}
          \cup {[made |-> FALSE, fn |-> "rank_score", args |-> <<wa, ver, sub>>] :
                    wa \in Magnitudes, ver \in Magnitudes, sub \in Magnitudes}
    /\ IdleCatalog /\ IdleValidate /\ IdleSync /\ IdleShard
    /\ IdlePub /\ IdleBloom

\* integer_tf_idf is applied to the chosen inputs
ScoreTfIdf ==
    /\ ~scored.made
    /\ scored.fn = "integer_tf_idf"
    /\ scored' = [made |-> TRUE, fn |-> scored.fn, args |-> scored.args,
                  result |-> integer_tf_idf(scored.args[1], scored.args[2],
                                            scored.args[3], scored.args[4])]
    /\ UNCHANGED <<bloomVars, pubVars, catVars, validateVars, syncVars, shardVars>>

\* rank_score is applied to the chosen inputs, once per status
ScoreRank ==
    /\ ~scored.made
    /\ scored.fn = "rank_score"
    /\ scored' = [made |-> TRUE, fn |-> scored.fn, args |-> scored.args,
                  result |-> [status \in ScoreStatuses |->
                                 rank_score(scored.args[1], scored.args[2],
                                            scored.args[3], status)]]
    /\ UNCHANGED <<bloomVars, pubVars, catVars, validateVars, syncVars, shardVars>>

NextScore == ScoreTfIdf \/ ScoreRank

SpecScore == InitScore /\ [][NextScore]_vars

\* floor(log2(total_docs / docs_with_term)) for 0 < docs_with_term <= total_docs:
\* the greatest n with 2^n * docs_with_term <= total_docs
RECURSIVE FloorLog2Ratio(_, _)
FloorLog2Ratio(total_docs, docs_with_term) ==
    IF total_docs < 2 * docs_with_term THEN 0
    ELSE 1 + FloorLog2Ratio(total_docs, 2 * docs_with_term)

\* The stated score: (tf * (floor(log2(total_docs / docs_with_term)) * 10000 + 10000)) / 10000
StatedTfIdf(term_count, total_terms, total_docs, docs_with_term) ==
    MulDiv10000((term_count * 10000) \div total_terms,
                FloorLog2Ratio(total_docs, docs_with_term) * 10000 + 10000)

ScoredTfIdf == scored.made /\ scored.fn = "integer_tf_idf"
ScoredRank == scored.made /\ scored.fn = "rank_score"

\* C34: integer_tf_idf returns 0 when total_terms or docs_with_term is 0, and
\* for total_terms > 0 and 0 < docs_with_term <= total_docs it returns
\* ((term_count * 10000 / total_terms)
\*    * (floor(log2(total_docs / docs_with_term)) * 10000 + 10000)) / 10000
C34_TfIdfFormula ==
    ScoredTfIdf =>
        IF scored.args[2] = 0 \/ scored.args[4] = 0 THEN scored.result = 0
        ELSE scored.args[4] <= scored.args[3] =>
                 scored.result = StatedTfIdf(scored.args[1], scored.args[2],
                                             scored.args[3], scored.args[4])

\* C35 as stated: for every weighted_attestations, version and subscribers the
\* score with Confirmed is strictly greater than with Pending, and the score
\* with Disputed strictly less than with Pending
C35_RankOrdersStatuses ==
    ScoredRank =>
        /\ scored.result["Confirmed"] > scored.result["Pending"]
        /\ scored.result["Disputed"] < scored.result["Pending"]

\* C35, amended: Confirmed always scores strictly above Pending; Disputed
\* never scores above Pending, and scores strictly below it exactly when one of
\* the three magnitudes is not 0 (with all three 0 both scores are 0)
C35_RankOrderClamped ==
    ScoredRank =>
        /\ scored.result["Confirmed"] > scored.result["Pending"]
        /\ scored.result["Disputed"] <= scored.result["Pending"]
        /\ (scored.result["Disputed"] < scored.result["Pending"])
               <=> (scored.args # <<0, 0, 0>>)

\* rank_score was applied to three magnitudes of 0: the Disputed and the
\* Pending score are both 0
C35_Witness ==
    /\ ScoredRank
    /\ scored.args = <<0, 0, 0>>
    /\ scored.result["Disputed"] = 0
    /\ scored.result["Pending"] = 0
    /\ scored.result["Confirmed"] = 3000

\* ---------------------------------------------------------------------------
\* A shard whose host also relays full states: the update lists hold deltas
\* and UpdateData::State items.  A peer's state is whatever decodes as a
\* ShardState: states of this shard, of another shard, and states no replica
\* would build.

\* The state a replica of shard id built from the empty shard by the deltas
BuiltShard(id, deltas) == shard_update_state(EmptyShard(id), <<BatchItem(deltas)>>).state

\* Peer states: two replicas of shard 0 (words 9 and 25), one of shard 1
\* (word 10), and a state of shard 0 that lists contract key 1 twice under
\* word 9
PeerShardStates ==
    {BuiltShard(0, <<ShardDelta(<<ShardDeltaEntry(9, 1, 2, 7)>>, 8, 1)>>),
     BuiltShard(0, <<ShardDelta(<<ShardDeltaEntry(9, 2, 1, 5),
                                  ShardDeltaEntry(25, 1, 2, 7)>>, 8, 1)>>),
     BuiltShard(1, <<ShardDelta(<<ShardDeltaEntry(10, 1, 1, 5)>>, 8, 1)>>),
     [shard_id |-> 0,
      index |-> MapPut(<<>>, 9, <<TermEntry(1, 1, 5), TermEntry(1, 2, 7)>>)]}

\* The update lists of the calls of SpecShardPeer
ShardPeerData ==
    {<<FullStateItem(p)>> : p \in PeerShardStates}
    \cup {<<DeltaItem(d)>> :
              d \in {ShardDelta(<<ShardDeltaEntry(9, 1, 1, 5)>>, 8, 1),
                     ShardDelta(<<ShardDeltaEntry(10, 1, 2, 7)>>, 8, 1),
                     ShardDelta(<<ShardDeltaEntry(25, 2, 1, 5)>>, 8, 1)}}
    \cup {<<DeltaItem(ShardDelta(<<ShardDeltaEntry(9, 1, 1, 5)>>, 8, 1)),
            FullStateItem(BuiltShard(0, <<ShardDelta(<<ShardDeltaEntry(9, 1, 2, 7)>>, 8, 1)>>))>>,
          <<GarbageStateItem>>}

NextShardPeer == \E data \in ShardPeerData : ShardUpdate(data)

SpecShardPeer == InitShard /\ [][NextShardPeer]_vars

\* The update list of the last shard call holds a full state
MergedShardState ==
    \E i \in 1..Len(scall.data) : scall.data[i].kind = "State"

\* C36: from a state validate_state accepts, a successful update_state call
\* that carries a full state (any decodable ShardState, one built for another
\* shard_id included) returns a state in which every term hashes to the local
\* shard_id and no term lists a contract key twice
C36_ShardMergeKeepsValid ==
    (/\ scall.made
     /\ scall.result.kind = "Valid"
     /\ MergedShardState
     /\ shard_validate_state(scall.state) = "Valid")
        => TermsBelongAndUnique(scall.result.state)

\* Statuses across calls

Settled(status) == status \in {"Confirmed", "Disputed"}

\* C37: under a fixed threshold, an entry that is Confirmed or Disputed when a
\* successful update_state call starts is Confirmed or Disputed when it
\* returns, and no entry of a returned state is Expired
C37_StatusNeverFallsBack ==
    Returned =>
        /\ \A k \in DOMAIN call.state.entries :
               Settled(call.state.entries[k].status)
                   => /\ k \in DOMAIN call.result.state.entries
                      /\ Settled(call.result.state.entries[k].status)
        /\ \A k \in DOMAIN call.result.state.entries :
               call.result.state.entries[k].status # "Expired"

\* A successful call found entry 1 Confirmed and left it Disputed, after a
\* second variant was attested
C37_Witness ==
    /\ Returned
    /\ 1 \in DOMAIN call.state.entries
    /\ call.state.entries[1].status = "Confirmed"
    /\ call.result.state.entries[1].status = "Disputed"

\* The frame of one delta

\* An entry without the weights: every attestation weight and every
\* total_weight set to 0
Unweighted(entry) ==
    [entry EXCEPT !.hash_variants =
        [h \in DOMAIN entry.hash_variants |->
            [entry.hash_variants[h] EXCEPT
                !.total_weight = 0,
                !.attestations = [i \in 1..Len(entry.hash_variants[h].attestations) |->
                                     [entry.hash_variants[h].attestations[i]
                                          EXCEPT !.weight = 0]]]]]

\* The last call handed update_state one CatalogDelta and it was accepted
AppliedOneDelta ==
    /\ Returned
    /\ Len(call.data) = 1
    /\ call.data[1].kind = "Delta"
    /\ call.data[1].decoded = "one"

\* C38: a successful update_state call with one valid CatalogDelta for key k
\* leaves every other entry as it was but for the attestation weights and
\* total_weight: same variants, texts, attestations, size_bytes, version,
\* first_seen, last_seen and status; and it adds no entry under another key
C38_DeltaFrame ==
    AppliedOneDelta =>
        /\ \A k \in (DOMAIN call.state.entries) \ {call.data[1].delta.contract_key} :
               /\ k \in DOMAIN call.result.state.entries
               /\ Unweighted(call.result.state.entries[k]) = Unweighted(call.state.entries[k])
        /\ DOMAIN call.result.state.entries
               = (DOMAIN call.state.entries) \cup {call.data[1].delta.contract_key}

\* A delta for key 2 was applied to a state that holds entry 1, and the
\* total_weight of a variant of entry 1 changed
C38_Witness ==
    /\ AppliedOneDelta
    /\ call.data[1].delta.contract_key = 2
    /\ 1 \in DOMAIN call.state.entries
    /\ call.result.state.entries[1] # call.state.entries[1]

\* The summary / diff pair of the publication contract

\* The peer states whose summary the last get_state_delta call was handed
SummarizedPeers ==
    {b \in UpdateStates :
        /\ web_summarize_state(b).kind = "Ok"
        /\ web_summarize_state(b).summary = pcall.summary}

\* C39: for every non-empty local state A and every peer state B, the empty
\* state included, get_state_delta(A, summarize_state(B)) succeeds and returns
\* A when version(A) > version(B), the empty state counting as version 0, and
\* the empty payload otherwise
C39_SummaryDiffTotal ==
    (pcall.made /\ pcall.op = "delta" /\ pcall.state # EmptyState) =>
        \A b \in SummarizedPeers :
            pcall.result
                = [kind |-> "Ok",
                   delta |-> IF PubVersion(pcall.state) > PubVersion(b)
                             THEN pcall.state ELSE EmptyState]

\* The payload of get_state_delta handed back to update_state

\* Replica states the payload is applied to: the empty catalog, the sender's
\* own state, and states other replicas built
ReceiverStates == {EmptyCatalog, node[1]} \cup BuiltPeerStates(threshold)

\* update_state(parameters, state, [UpdateData::Delta(payload)])
ApplyPayload(state, payload) == update_state(threshold, state, <<DecodeDelta(payload)>>)

\* C40 as stated: every payload get_state_delta returns, the payload returned
\* when no entry is missing included, is accepted by update_state as a Delta
\* update on every valid replica state
C40_PayloadAlwaysApplies ==
    (pc = "asked" /\ payloads[1].kind = "Ok") =>
        \A s \in ReceiverStates : ApplyPayload(s, payloads[1].delta).kind = "Valid"

\* C40, amended: a payload that carries deltas is accepted by update_state as
\* a Delta update on every valid replica state; the payload returned when no
\* entry is missing is the empty byte string, which update_state rejects with
\* InvalidUpdate on every state
C40_NonEmptyPayloadApplies ==
    (pc = "asked" /\ payloads[1].kind = "Ok") =>
        \A s \in ReceiverStates :
            ApplyPayload(s, payloads[1].delta).kind
                = IF payloads[1].delta = EmptyPayload THEN "InvalidUpdate" ELSE "Valid"

\* A payload of two deltas or more was returned for a local state of two
\* entries, and a replica that held neither entry accepted it
C40_Witness ==
    /\ pc = "asked"
    /\ payloads[1].kind = "Ok"
    /\ Len(PayloadDeltas(payloads[1].delta)) >= 2
    /\ Cardinality(DOMAIN node[1].entries) = 2
    /\ DOMAIN ApplyPayload(EmptyCatalog, payloads[1].delta).state.entries
           = DOMAIN node[1].entries
====
